---- MODULE Spec2Model ----
(***************************************************************************)
(* A model of the VA-API NVDEC driver backend (src/src/vabackend.c): the   *)
(* object registry, the Config/Context/Surface/Buffer lifecycle, the       *)
(* Begin/End picture sequence, the per-Context resolve thread and          *)
(* SyncSurface.                                                            *)
(*                                                                         *)
(* Pointers are modelled by the id of the Object whose payload they point  *)
(* to (NULL is 0).  The payload of a freed Object stays in its heap map:   *)
(* the registry (objects) says which Objects are live.  Client entry       *)
(* points run atomically, except SyncSurface and DestroyContext, which     *)
(* block; the resolve thread runs one statement group at a time.           *)
(***************************************************************************)
EXTENDS Integers, Sequences, FiniteSets, TLC

\* ---------------------------------------------------------------- bounds
MaxConfigs == 1
MaxContexts == 1
MaxSurfaces == 2
MaxBuffers == 1
MaxRenderTargets == 2
MaxPictures == 3
NumSyncThreads == 2
PictureContexts == 2
\* the ring capacity, scaled down so that the write index wraps
SURFACE_QUEUE_SIZE == 3
NumInitThreads == 2
\* the largest NVD_MAX_INSTANCES tried, and the cap on the instance counter
\* when NVD_MAX_INSTANCES is 0
MaxInstances == 2
\* __vaDriverInit_1_0 calls per client thread
MaxInitCalls == 2
\* the devices tried support at most this many of the probed (codec, bit
\* depth, chroma) triples, or all but at most this many
MaxGpuDelta == 2
\* the bytes an Appendable Buffer holds at most, and the length of one append
MaxBufferBytes == 4
MaxAppendLen == 2
\* the buffer ids of one RenderPicture call
MaxRenderBuffers == 2
\* the slot pools of the stub driver, scaled down from 256 and 16
MAX_SURFACES == 3
MAX_CONTEXTS == 2
\* the ids the stub driver hands out at most
MaxStubIds == 4
MaxCtxDepth == 2
NumAllocThreads == 2
MaxAllocs == 3
MaxMapPictures == 3

\* ------------------------------------------------------------- constants
NULL == 0
\* 0xffffffff, written as the signed 32-bit integer of the same bits
VA_INVALID_ID == 0 - 1
MaxDecodeSurfaces == 32
MAX_PROFILES == 32
NoPictureIdx == 0 - 1

OBJECT_TYPE_CONFIG == "CONFIG"
OBJECT_TYPE_CONTEXT == "CONTEXT"
OBJECT_TYPE_SURFACE == "SURFACE"
OBJECT_TYPE_BUFFER == "BUFFER"
OBJECT_TYPE_IMAGE == "IMAGE"

SyncThreads == 1 .. NumSyncThreads
InitThreads == 1 .. NumInitThreads
AllocThreads == 1 .. NumAllocThreads

\* the doesGPUSupportCodec probes of nvQueryConfigProfiles, in program order:
\* the triple probed, the profiles appended when the device supports it, and
\* the capability flags that enclose the probe
profileProbes ==
    << [codec |-> "MPEG2", bitDepth |-> 8, chroma |-> "420", needs16 |-> FALSE,
        needs444 |-> FALSE, profiles |-> <<"MPEG2Simple", "MPEG2Main">>],
       [codec |-> "MPEG4", bitDepth |-> 8, chroma |-> "420", needs16 |-> FALSE,
        needs444 |-> FALSE,
        profiles |-> <<"MPEG4Simple", "MPEG4AdvancedSimple", "MPEG4Main">>],
       [codec |-> "VC1", bitDepth |-> 8, chroma |-> "420", needs16 |-> FALSE,
        needs444 |-> FALSE,
        profiles |-> <<"VC1Simple", "VC1Main", "VC1Advanced">>],
       [codec |-> "H264", bitDepth |-> 8, chroma |-> "420", needs16 |-> FALSE,
        needs444 |-> FALSE,
        profiles |-> <<"H264Main", "H264High", "H264ConstrainedBaseline">>],
       [codec |-> "JPEG", bitDepth |-> 8, chroma |-> "420", needs16 |-> FALSE,
        needs444 |-> FALSE, profiles |-> <<"JPEGBaseline">>],
       [codec |-> "H264_SVC", bitDepth |-> 8, chroma |-> "420", needs16 |-> FALSE,
        needs444 |-> FALSE, profiles |-> <<"H264StereoHigh">>],
       [codec |-> "H264_MVC", bitDepth |-> 8, chroma |-> "420", needs16 |-> FALSE,
        needs444 |-> FALSE, profiles |-> <<"H264MultiviewHigh">>],
       [codec |-> "HEVC", bitDepth |-> 8, chroma |-> "420", needs16 |-> FALSE,
        needs444 |-> FALSE, profiles |-> <<"HEVCMain">>],
       [codec |-> "VP8", bitDepth |-> 8, chroma |-> "420", needs16 |-> FALSE,
        needs444 |-> FALSE, profiles |-> <<"VP8Version0_3">>],
       [codec |-> "VP9", bitDepth |-> 8, chroma |-> "420", needs16 |-> FALSE,
        needs444 |-> FALSE, profiles |-> <<"VP9Profile0">>],
       [codec |-> "AV1", bitDepth |-> 8, chroma |-> "420", needs16 |-> FALSE,
        needs444 |-> FALSE, profiles |-> <<"AV1Profile0">>],
       [codec |-> "HEVC", bitDepth |-> 10, chroma |-> "420", needs16 |-> TRUE,
        needs444 |-> FALSE, profiles |-> <<"HEVCMain10">>],
       [codec |-> "HEVC", bitDepth |-> 12, chroma |-> "420", needs16 |-> TRUE,
        needs444 |-> FALSE, profiles |-> <<"HEVCMain12">>],
       [codec |-> "VP9", bitDepth |-> 10, chroma |-> "420", needs16 |-> TRUE,
        needs444 |-> FALSE, profiles |-> <<"VP9Profile2">>],
       [codec |-> "HEVC", bitDepth |-> 8, chroma |-> "444", needs16 |-> FALSE,
        needs444 |-> TRUE, profiles |-> <<"HEVCMain444">>],
       [codec |-> "VP9", bitDepth |-> 8, chroma |-> "444", needs16 |-> FALSE,
        needs444 |-> TRUE, profiles |-> <<"VP9Profile1">>],
       [codec |-> "AV1", bitDepth |-> 8, chroma |-> "444", needs16 |-> FALSE,
        needs444 |-> TRUE, profiles |-> <<"AV1Profile1">>],
       [codec |-> "HEVC", bitDepth |-> 10, chroma |-> "444", needs16 |-> TRUE,
        needs444 |-> TRUE, profiles |-> <<"HEVCMain444_10">>],
       [codec |-> "HEVC", bitDepth |-> 12, chroma |-> "444", needs16 |-> TRUE,
        needs444 |-> TRUE, profiles |-> <<"HEVCMain444_12">>],
       [codec |-> "VP9", bitDepth |-> 10, chroma |-> "444", needs16 |-> TRUE,
        needs444 |-> TRUE, profiles |-> <<"VP9Profile3">>] >>

\* every (codec, bit depth, chroma) triple the driver asks the device about
AllProbes ==
    {<<profileProbes[i].codec, profileProbes[i].bitDepth, profileProbes[i].chroma>> :
        i \in DOMAIN profileProbes}

VARIABLES
    objects,          \* drv->objects: the registry, a list of [id, type]
    nextObjId,        \* drv->nextObjId
    drvSurfaceCount,  \* drv->surfaceCount
    configs,          \* heap of NVConfig payloads, by Object id
    contexts,         \* heap of NVContext payloads, by Object id
    surfaces,         \* heap of NVSurface payloads, by Object id
    buffers,          \* heap of NVBuffer payloads, by Object id
    resolveThread,    \* per Context: position of its resolve thread
    syncThread,       \* per client thread in SyncSurface: its position
    joining,          \* Contexts whose DestroyContext waits in timedjoin
    beginLog,         \* the successful BeginPicture calls, in order
    endLog,           \* per Context: the Surfaces EndPicture enqueued, in order
    decodeLog,        \* per Context: the CurrPicIdx of each picture EndPicture enqueued
    exportLog,        \* per Context: the exportCudaPtr calls, in order
    drvCaps,          \* drv->supports16BitSurface, drv->supports444Surface
    freed,            \* the ids of the Objects that have been freed
    ret,              \* the last completed entry-point call and its status
    instances,        \* the process-wide count of Driver Instances
    max_instances,    \* NVD_MAX_INSTANCES, 0 when unset
    initThread,       \* per client thread: its __vaDriverInit_1_0 / Terminate
    hung,             \* Contexts whose caller is inside a call that does not
                      \* return
    gpuSupport,       \* the triples cuvidGetDecoderCaps reports as supported
    allocThread,      \* per client thread inside allocateObject: its position
    ctxStackDepth,    \* the client thread's pushes of the device context that
                      \* no cuCtxPopCurrent call followed
    codecs,           \* the registered codec table (the nvd_codecs section)
    surface_pool,     \* vaapi_driver.c: surface_pool
    next_surface_id,  \* vaapi_driver.c: next_surface_id
    context_pool,     \* vaapi_driver.c: context_pool
    next_context_id,  \* vaapi_driver.c: next_context_id
    crashed,          \* the process has been killed by a memory fault
    appendLog         \* per Context: the bytes appended to its
                      \* bitstreamBuffer since its size was last set to 0

\* the slot pools of the stub driver
stubVars == <<surface_pool, next_surface_id, context_pool, next_context_id>>

vars == <<objects, nextObjId, drvSurfaceCount, configs, contexts, surfaces,
          buffers, resolveThread, syncThread, joining, endLog, decodeLog, exportLog,
          drvCaps, freed, beginLog, ret,
          instances, max_instances, initThread, hung, gpuSupport, stubVars, allocThread, ctxStackDepth, codecs, crashed, appendLog>>

\* the state outside the Driver Instance's registry and pictures
procVars == <<instances, max_instances, initThread, hung, gpuSupport, stubVars, allocThread, ctxStackDepth, codecs, crashed, appendLog>>

\* the same without the record of the appended bytes
procVarsButLog == <<instances, max_instances, initThread, hung, gpuSupport, stubVars, allocThread, ctxStackDepth, codecs, crashed>>
procVarsButCrashed == <<instances, max_instances, initThread, hung, gpuSupport, stubVars, allocThread, ctxStackDepth, codecs, appendLog>>
procVarsButDepth == <<instances, max_instances, initThread, hung, gpuSupport, stubVars, allocThread, codecs, crashed, appendLog>>

\* the registered codec table (the nvd_codecs linker section), in table order
nvd_codecs ==
    << [codec |-> "MPEG2", supportedProfiles |-> {"MPEG2Simple", "MPEG2Main"}],
       [codec |-> "MPEG4", supportedProfiles |-> {"MPEG4Simple", "MPEG4AdvancedSimple",
                                                  "MPEG4Main"}],
       [codec |-> "VC1", supportedProfiles |-> {"VC1Simple", "VC1Main", "VC1Advanced"}],
       [codec |-> "JPEG", supportedProfiles |-> {"JPEGBaseline"}],
       [codec |-> "VP8", supportedProfiles |-> {"VP8Version0_3"}],
       [codec |-> "H264", supportedProfiles |-> {"H264Main", "H264High",
                                                 "H264ConstrainedBaseline"}],
       [codec |-> "HEVC", supportedProfiles |-> {"HEVCMain", "HEVCMain10", "HEVCMain12",
                             "HEVCMain444", "HEVCMain444_10", "HEVCMain444_12"}],
       [codec |-> "VP9", supportedProfiles |-> {"VP9Profile0", "VP9Profile1",
                                                "VP9Profile2", "VP9Profile3"}],
       [codec |-> "AV1", supportedProfiles |-> {"AV1Profile0", "AV1Profile1"}] >>

\* one client thread has initialised the Driver Instance; no cap is set
OneInstance ==
    /\ instances = 1
    /\ max_instances = 0
    /\ initThread = [t \in InitThreads |->
                        IF t = 1
                        THEN [pc |-> "returned", status |-> "SUCCESS", calls |-> 1,
                              terminated |-> FALSE]
                        ELSE [pc |-> "idle", status |-> "NONE", calls |-> 0,
                              terminated |-> FALSE]]
    /\ hung = {}
    /\ gpuSupport = AllProbes
    /\ allocThread = [t \in AllocThreads |-> [pc |-> "idle", id |-> 0, type |-> "NONE"]]
    /\ ctxStackDepth = 0
    /\ codecs = nvd_codecs
    /\ surface_pool = [j \in 0 .. (MAX_SURFACES - 1) |-> [surface_id |-> 0, allocated |-> 0]]
    /\ next_surface_id = 1
    /\ context_pool = [i \in 0 .. (MAX_CONTEXTS - 1) |-> [context_id |-> 0, allocated |-> 0]]
    /\ next_context_id = 1
    /\ crashed = FALSE
    /\ appendLog = <<>>

\* ------------------------------------------------------- object registry
add_element(list, o) == Append(list, o)

remove_element_at(list, idx) ==
    SubSeq(list, 1, idx - 1) \o SubSeq(list, idx + 1, Len(list))

\* the index of the first Object of the list with this id, 0 when none
firstIndexOf(list, id) ==
    IF \E i \in 1 .. Len(list) : list[i].id = id
    THEN CHOOSE i \in 1 .. Len(list) :
            /\ list[i].id = id
            /\ \A j \in 1 .. (i - 1) : list[j].id # id
    ELSE 0

allocateObject(list, next, type) ==
    [objects |-> add_element(list, [id |-> next + 1, type |-> type]),
     nextObjId |-> next + 1,
     id |-> next + 1]

\* a NULL Object pointer
NullObject == [id |-> NULL, type |-> "NONE"]

\* the Object found, or NullObject
getObject(list, id) ==
    IF id # VA_INVALID_ID /\ firstIndexOf(list, id) # 0
    THEN list[firstIndexOf(list, id)]
    ELSE NullObject

\* o->obj: the payload pointer, modelled by the Object's id
getObjectPtr(list, id) ==
    IF id # VA_INVALID_ID
    THEN IF getObject(list, id) # NullObject THEN getObject(list, id).id ELSE NULL
    ELSE NULL

\* a delete that unlinks nothing
deleteNothing(list, id) == list

deleteObject(list, id) ==
    IF id = VA_INVALID_ID THEN list
    ELSE IF firstIndexOf(list, id) # 0
         THEN remove_element_at(list, firstIndexOf(list, id))
         ELSE list

\* the id of the Object a delete of this id is to free: free(o) and
\* free(o->obj) of the Object found
freedBy(list, id) ==
    IF id # VA_INVALID_ID /\ \E i \in 1 .. Len(list) : list[i].id = id
    THEN {id} ELSE {}

liveIds(type) == {objects[i].id : i \in {j \in 1 .. Len(objects) : objects[j].type = type}}
allLiveIds == {objects[i].id : i \in 1 .. Len(objects)}
countOf(type) == Cardinality(liveIds(type))

\* ids a client may pass: every id handed out so far, one never handed out,
\* and VA_INVALID_ID
ClientIds == (1 .. (nextObjId + 1)) \cup {VA_INVALID_ID}

\* extend a heap map with one payload
heapPut(heap, id, payload) ==
    [i \in (DOMAIN heap) \cup {id} |-> IF i = id THEN payload ELSE heap[i]]

Init ==
    /\ objects = <<>>
    /\ nextObjId = 0
    /\ drvSurfaceCount = 0
    /\ configs = <<>>
    /\ contexts = <<>>
    /\ surfaces = <<>>
    /\ buffers = <<>>
    /\ resolveThread = <<>>
    /\ syncThread = [t \in SyncThreads |-> [pc |-> "idle", surface |-> NULL,
                                            status |-> "NONE", resolving |-> 0]]
    /\ joining = {}
    /\ beginLog = <<>>
    /\ endLog = <<>>
    /\ decodeLog = <<>>
    /\ exportLog = <<>>
    /\ drvCaps = [supports16BitSurface |-> TRUE, supports444Surface |-> TRUE]
    /\ freed = {}
    /\ ret = [op |-> "init", status |-> "SUCCESS"]
    /\ OneInstance

\* ----------------------------------------------------------------- Config
\* the codec of a profile in the registered codec table, "NONE" when no
\* registered codec translates it
vaToCuCodec(profile) ==
    CASE profile \in {"MPEG2Simple", "MPEG2Main"} -> "MPEG2"
      [] profile \in {"MPEG4Simple", "MPEG4AdvancedSimple", "MPEG4Main"} -> "MPEG4"
      [] profile \in {"VC1Simple", "VC1Main", "VC1Advanced"} -> "VC1"
      [] profile = "JPEGBaseline" -> "JPEG"
      [] profile = "VP8Version0_3" -> "VP8"
      [] profile \in {"H264Main", "H264High", "H264ConstrainedBaseline"} -> "H264"
      [] profile \in {"HEVCMain", "HEVCMain10", "HEVCMain12", "HEVCMain444",
                      "HEVCMain444_10", "HEVCMain444_12"} -> "HEVC"
      [] profile \in {"VP9Profile0", "VP9Profile1", "VP9Profile2", "VP9Profile3"} -> "VP9"
      [] profile \in {"AV1Profile0", "AV1Profile1"} -> "AV1"
      [] OTHER -> "NONE"

\* rt is the value of a leading VAConfigAttribRTFormat attribute, "NONE"
\* when the attribute list does not start with one
configOverride16(cfg, rt) ==
    CASE cfg.profile = "HEVCMain10" ->
            [cfg EXCEPT !.surfaceFormat = "P016", !.bitDepth = 10]
      [] cfg.profile = "HEVCMain12" ->
            [cfg EXCEPT !.surfaceFormat = "P016", !.bitDepth = 12]
      [] cfg.profile \in {"VP9Profile2", "AV1Profile0"} ->
            IF rt # "NONE"
            THEN CASE rt = "YUV420_12" ->
                        [cfg EXCEPT !.surfaceFormat = "P016", !.bitDepth = 12]
                   [] rt = "YUV420_10" ->
                        [cfg EXCEPT !.surfaceFormat = "P016", !.bitDepth = 10]
                   [] OTHER -> cfg
            ELSE IF cfg.profile = "VP9Profile2"
                 THEN [cfg EXCEPT !.surfaceFormat = "P016", !.bitDepth = 10]
                 ELSE cfg
      [] OTHER -> cfg

configOverride444(cfg) ==
    IF cfg.profile \in {"HEVCMain444", "VP9Profile1", "AV1Profile1"}
    THEN [cfg EXCEPT !.surfaceFormat = "YUV444", !.chromaFormat = "444",
                     !.bitDepth = 8]
    ELSE cfg

configOverride444_16(cfg, rt) ==
    CASE cfg.profile = "HEVCMain444_10" ->
            [cfg EXCEPT !.surfaceFormat = "YUV444_16Bit", !.chromaFormat = "444",
                        !.bitDepth = 10]
      [] cfg.profile = "HEVCMain444_12" ->
            [cfg EXCEPT !.surfaceFormat = "YUV444_16Bit", !.chromaFormat = "444",
                        !.bitDepth = 12]
      [] cfg.profile \in {"VP9Profile3", "AV1Profile1"} ->
            IF rt # "NONE"
            THEN CASE rt = "YUV444_12" ->
                        [cfg EXCEPT !.surfaceFormat = "YUV444_16Bit",
                                    !.chromaFormat = "444", !.bitDepth = 12]
                   [] rt = "YUV444_10" ->
                        [cfg EXCEPT !.surfaceFormat = "YUV444_16Bit",
                                    !.chromaFormat = "444", !.bitDepth = 10]
                   [] rt = "YUV444" ->
                        [cfg EXCEPT !.surfaceFormat = "YUV444",
                                    !.chromaFormat = "444", !.bitDepth = 8]
                   [] OTHER -> cfg
            ELSE IF cfg.profile = "VP9Profile3"
                 THEN [cfg EXCEPT !.surfaceFormat = "YUV444_16Bit",
                                  !.chromaFormat = "444", !.bitDepth = 10]
                 ELSE cfg
      [] OTHER -> cfg

newConfig(profile, entrypoint, rt, caps) ==
    LET c0 == [profile |-> profile, entrypoint |-> entrypoint,
               cudaCodec |-> vaToCuCodec(profile), chromaFormat |-> "420",
               surfaceFormat |-> "NV12", bitDepth |-> 8]
        c1 == IF caps.supports16BitSurface THEN configOverride16(c0, rt) ELSE c0
        c2 == IF caps.supports444Surface THEN configOverride444(c1) ELSE c1
        c3 == IF caps.supports444Surface /\ caps.supports16BitSurface
              THEN configOverride444_16(c2, rt) ELSE c2
    IN c3

Unchanged_threads == UNCHANGED <<resolveThread, syncThread, joining, endLog, decodeLog, exportLog>>

\* the entrypoint tested before the profile
createConfigStatusEntrypointFirst(profile, entrypoint) ==
    IF entrypoint # "VLD" THEN "UNSUPPORTED_ENTRYPOINT"
    ELSE IF vaToCuCodec(profile) = "NONE" THEN "UNSUPPORTED_PROFILE"
    ELSE "SUCCESS"

\* the two tests nvCreateConfig makes before it allocates
createConfigStatus(profile, entrypoint) ==
    IF vaToCuCodec(profile) = "NONE" THEN "UNSUPPORTED_PROFILE"
    ELSE IF entrypoint # "VLD" THEN "UNSUPPORTED_ENTRYPOINT"
    ELSE "SUCCESS"

nvCreateConfig(profile, entrypoint, rt) ==
    /\ Cardinality(DOMAIN configs) < MaxConfigs
    /\ IF createConfigStatus(profile, entrypoint) # "SUCCESS"
       THEN /\ ret' = [op |-> "CreateConfig",
                       status |-> createConfigStatus(profile, entrypoint),
                       profile |-> profile, entrypoint |-> entrypoint,
                       id |-> VA_INVALID_ID]
            /\ UNCHANGED <<objects, nextObjId, configs>>
       ELSE LET a == allocateObject(objects, nextObjId, OBJECT_TYPE_CONFIG)
            IN /\ objects' = a.objects
               /\ nextObjId' = a.nextObjId
               /\ configs' = heapPut(configs, a.id,
                                     newConfig(profile, entrypoint, rt, drvCaps))
               /\ ret' = [op |-> "CreateConfig", status |-> "SUCCESS",
                          profile |-> profile, entrypoint |-> entrypoint,
                          id |-> a.id]
    /\ UNCHANGED <<drvSurfaceCount, contexts, surfaces, buffers, drvCaps, procVars, beginLog, freed>>
    /\ Unchanged_threads

nvDestroyConfig(config_id) ==
    /\ objects' = deleteObject(objects, config_id)
    /\ freed' = freed \cup freedBy(objects, config_id)
    /\ ret' = [op |-> "DestroyConfig", status |-> "SUCCESS", id |-> config_id,
               found |-> getObject(objects, config_id)]
    /\ UNCHANGED <<nextObjId, drvSurfaceCount, configs, contexts, surfaces,
                   buffers, drvCaps, procVars, beginLog>>

    /\ Unchanged_threads

\* --------------------------------------------------------------- Surfaces
\* the (nvFormat, chromaFormat, bitdepth) of a VA_RT_FORMAT, format "NONE"
\* when the VA_RT_FORMAT is unknown
surfaceFormatOf(format) ==
    CASE format = "YUV420" -> [format |-> "NV12", chromaFormat |-> "420", bitDepth |-> 8]
      [] format = "YUV420_10" -> [format |-> "P016", chromaFormat |-> "420", bitDepth |-> 10]
      [] format = "YUV420_12" -> [format |-> "P016", chromaFormat |-> "420", bitDepth |-> 12]
      [] format = "YUV444" -> [format |-> "YUV444", chromaFormat |-> "444", bitDepth |-> 8]
      [] format = "YUV444_10" -> [format |-> "YUV444_16Bit", chromaFormat |-> "444", bitDepth |-> 10]
      [] format = "YUV444_12" -> [format |-> "YUV444_16Bit", chromaFormat |-> "444", bitDepth |-> 12]
      [] OTHER -> [format |-> "NONE", chromaFormat |-> "NONE", bitDepth |-> 0]

newSurface(f) ==
    [format |-> f.format, chromaFormat |-> f.chromaFormat, bitDepth |-> f.bitDepth,
     pictureIdx |-> NoPictureIdx, context |-> NULL, resolving |-> 0,
     decodeFailed |-> FALSE, backingImage |-> NULL]

\* one Surface per call; pushOk and popOk are the results of cuCtxPushCurrent
\* and cuCtxPopCurrent
nvCreateSurfaces2(format, pushOk, popOk) ==
    /\ Cardinality(DOMAIN surfaces) < MaxSurfaces
    /\ IF surfaceFormatOf(format).format = "NONE"
       THEN /\ ret' = [op |-> "CreateSurfaces2", status |-> "UNSUPPORTED_RT_FORMAT"]
            /\ UNCHANGED <<objects, nextObjId, drvSurfaceCount, surfaces>>
       ELSE IF ~pushOk
       THEN /\ ret' = [op |-> "CreateSurfaces2", status |-> "OPERATION_FAILED"]
            /\ UNCHANGED <<objects, nextObjId, drvSurfaceCount, surfaces>>
       ELSE LET a == allocateObject(objects, nextObjId, OBJECT_TYPE_SURFACE)
            IN /\ objects' = a.objects
               /\ nextObjId' = a.nextObjId
               /\ surfaces' = heapPut(surfaces, a.id, newSurface(surfaceFormatOf(format)))
               /\ drvSurfaceCount' = drvSurfaceCount + 1
               /\ ret' = [op |-> "CreateSurfaces2",
                          status |-> IF popOk THEN "SUCCESS" ELSE "OPERATION_FAILED",
                          id |-> a.id]
    /\ UNCHANGED <<configs, contexts, buffers, drvCaps, procVars, beginLog, freed>>
    /\ Unchanged_threads

\* the only Surface operation of the export backend this file calls on a
\* Surface that is going away or changing Context
detachBackingImageFromSurface(surface) == [surface EXCEPT !.backingImage = NULL]

MAX(a, b) == IF a > b THEN a ELSE b

nvDestroySurfaces(surface_id) ==
    LET surface == getObjectPtr(objects, surface_id)
    IN /\ surface \in DOMAIN surfaces
       /\ surfaces' = [surfaces EXCEPT
                          ![surface] = detachBackingImageFromSurface(surfaces[surface])]
       /\ objects' = deleteObject(objects, surface_id)
       /\ freed' = freed \cup freedBy(objects, surface_id)
       /\ drvSurfaceCount' = MAX(drvSurfaceCount - 1, 0)
       /\ ret' = [op |-> "DestroySurfaces", status |-> "SUCCESS", id |-> surface_id,
                  found |-> TRUE]
       /\ UNCHANGED <<nextObjId, configs, contexts, buffers, drvCaps, procVars, beginLog>>

       /\ Unchanged_threads

\* ------------------------------------------------------ Appendable Buffer
\* the bytes a client appends, and the content of a byte of allocated
\* memory that has not been written
Bytes == {"x", "y"}
UNINIT == "?"

\* an AppendableBuffer as calloc leaves it: buf NULL, size 0, allocated 0.
\* buf holds the allocated bytes; isNull is whether the pointer is NULL.
nullBuffer == [isNull |-> TRUE, buf |-> <<>>, size |-> 0, allocated |-> 0]

\* ab->allocated += ab->allocated >> 1
growStep(allocated) == allocated + allocated \div 2

\* the while loop of appendBuffer never ends: a step does not raise allocated
growthDiverges(ab, size) ==
    /\ ~ab.isNull
    /\ ab.size + size > ab.allocated
    /\ growStep(ab.allocated) = ab.allocated

\* a buffer that is never reallocated
keepAllocated(allocated, needed) == allocated

\* while (ab->size + size > ab->allocated) ab->allocated += ab->allocated >> 1
RECURSIVE growAllocated(_, _)
growAllocated(allocated, needed) ==
    IF needed > allocated THEN growAllocated(growStep(allocated), needed)
    ELSE allocated

\* a new block that receives none of the stored bytes
newBlockEmpty(ab, allocated) == [i \in 1 .. allocated |-> UNINIT]

\* the block of allocated bytes memalign returns, after
\* memcpy(nb, ab->buf, ab->size)
newBlock(ab, allocated) ==
    [i \in 1 .. allocated |-> IF i <= ab.size THEN ab.buf[i] ELSE UNINIT]

\* appendBuffer(ab, data, Len(data)), when its loop ends. zeroAllocNull is
\* whether memalign(16, 0) returns NULL.
appendBuffer(ab, data, zeroAllocNull) ==
    LET size == Len(data)
        ab1 == IF ab.isNull
               THEN [isNull |-> (size * 2 = 0 /\ zeroAllocNull),
                     buf |-> [i \in 1 .. (size * 2) |-> UNINIT],
                     size |-> 0, allocated |-> size * 2]
               ELSE IF ab.size + size > ab.allocated
               THEN LET allocated == growAllocated(ab.allocated, ab.size + size)
                    IN [ab EXCEPT !.allocated = allocated,
                                  !.buf = newBlock(ab, allocated)]
               ELSE ab
    IN [ab1 EXCEPT !.buf = [i \in 1 .. ab1.allocated |->
                               IF i > ab1.size /\ i <= ab1.size + size
                               THEN data[i - ab1.size] ELSE ab1.buf[i]],
                   !.size = ab1.size + size]

freeBuffer(ab) == IF ~ab.isNull THEN nullBuffer ELSE ab

\* the bytes appended to a Context's bitstreamBuffer since its size was
\* last set to 0
logOf(nvCtx) == IF nvCtx \in DOMAIN appendLog THEN appendLog[nvCtx] ELSE <<>>

dropLog(nvCtx) == [c \in (DOMAIN appendLog) \ {nvCtx} |-> appendLog[c]]

\* ---------------------------------------------------------------- Context
\* the index in the codec table of the codec the scan of nvCreateContext
\* leaves in selectedCodec (its break leaves the inner loop only, so a later
\* match replaces an earlier one), 0 when none
matchingCodecs(table, profile) ==
    {i \in 1 .. Len(table) : profile \in table[i].supportedProfiles}

\* a scan that stops at the first codec that lists the profile
firstCodec(profile) ==
    LET matching == matchingCodecs(codecs, profile)
    IN IF matching = {} THEN 0
       ELSE CHOOSE i \in matching : \A j \in matching : i <= j

selectedCodec(profile) ==
    LET matching == matchingCodecs(codecs, profile)
    IN IF matching = {} THEN 0
       ELSE CHOOSE i \in matching : \A j \in matching : j <= i

contextSurfaceCount(num_render_targets) ==
    LET surfaceCount == IF num_render_targets > 0 THEN num_render_targets
                        ELSE MaxDecodeSurfaces
    IN IF surfaceCount > MaxDecodeSurfaces THEN MaxDecodeSurfaces ELSE surfaceCount

newContext(cfg, surfaceCount) ==
    [profile |-> cfg.profile, entrypoint |-> cfg.entrypoint,
     codec |-> selectedCodec(cfg.profile),
     decoder |-> [CodecType |-> cfg.cudaCodec, ChromaFormat |-> cfg.chromaFormat,
                  OutputFormat |-> cfg.surfaceFormat,
                  bitDepthMinus8 |-> cfg.bitDepth - 8,
                  ulNumDecodeSurfaces |-> surfaceCount],
     surfaceCount |-> surfaceCount, currentPictureId |-> 0,
     renderTarget |-> NULL, pPicParams |-> [CurrPicIdx |-> 0],
     surfaceQueue |-> [i \in 0 .. (SURFACE_QUEUE_SIZE - 1) |-> NULL],
     surfaceQueueReadIdx |-> 0, surfaceQueueWriteIdx |-> 0, exiting |-> FALSE,
     bitstreamBuffer |-> nullBuffer, sliceOffsets |-> nullBuffer]

\* the Config left as it was
inheritNothing(cfg, surface) == cfg

\* the Config after nvCreateContext has copied the first render target's
\* format into it
inheritSurfaceFormat(cfg, surface) ==
    [cfg EXCEPT !.surfaceFormat = surface.format,
                !.chromaFormat = surface.chromaFormat,
                !.bitDepth = surface.bitDepth]

\* rt0 is render_targets[0]; lockOk, decoderOk and threadOk are the results
\* of cuvidCtxLockCreate, cuvidCreateDecoder and pthread_create
nvCreateContext(config_id, num_render_targets, rt0, lockOk, decoderOk, threadOk) ==
    LET cfg == getObjectPtr(objects, config_id)
        surface == getObjectPtr(objects, rt0)
        R(status) == [op |-> "CreateContext", status |-> status, cfg |-> cfg]
    IN
    /\ Cardinality(DOMAIN contexts) < MaxContexts
    /\ cfg = NULL \/ cfg \in DOMAIN configs
    /\ IF cfg = NULL
       THEN /\ ret' = R("INVALID_CONFIG")
            /\ UNCHANGED <<objects, nextObjId, drvSurfaceCount, configs, contexts,
                           resolveThread, endLog, decodeLog, exportLog, freed>>
       ELSE IF selectedCodec(configs[cfg].profile) = 0
       THEN /\ ret' = R("UNSUPPORTED_PROFILE")
            /\ UNCHANGED <<objects, nextObjId, drvSurfaceCount, configs, contexts,
                           resolveThread, endLog, decodeLog, exportLog, freed>>
       ELSE IF num_render_targets # 0 /\ surface = NULL
       THEN /\ ret' = R("INVALID_PARAMETER")
            /\ UNCHANGED <<objects, nextObjId, drvSurfaceCount, configs, contexts,
                           resolveThread, endLog, decodeLog, exportLog, freed>>
       ELSE
         /\ num_render_targets # 0 => surface \in DOMAIN surfaces
         /\ LET cfg1 == IF num_render_targets # 0
                        THEN inheritSurfaceFormat(configs[cfg], surfaces[surface])
                        ELSE configs[cfg]
                surfaceCount == contextSurfaceCount(num_render_targets)
                a == allocateObject(objects, nextObjId, OBJECT_TYPE_CONTEXT)
            IN /\ configs' = [configs EXCEPT ![cfg] = cfg1]
               /\ drvSurfaceCount' = 0
               /\ IF ~lockOk
                  THEN /\ ret' = R("OPERATION_FAILED")
                       /\ UNCHANGED <<objects, nextObjId, contexts, resolveThread,
                                      endLog, decodeLog, exportLog, freed>>
                  ELSE IF ~decoderOk
                  THEN /\ ret' = R("ALLOCATION_FAILED")
                       /\ UNCHANGED <<objects, nextObjId, contexts, resolveThread,
                                      endLog, decodeLog, exportLog, freed>>
                  ELSE
                    /\ nextObjId' = a.nextObjId
                    /\ contexts' = heapPut(contexts, a.id, newContext(cfg1, surfaceCount))
                    /\ IF ~threadOk
                       THEN /\ objects' = deleteObject(a.objects, a.id)
                            /\ freed' = freed \cup freedBy(a.objects, a.id)
                            /\ ret' = R("OPERATION_FAILED")
                            /\ UNCHANGED <<resolveThread, endLog, decodeLog, exportLog>>
                       ELSE /\ objects' = a.objects
                            /\ UNCHANGED freed
                            /\ resolveThread' = heapPut(resolveThread, a.id,
                                                  [pc |-> "start", surface |-> NULL, taken |-> <<>>])
                            /\ endLog' = heapPut(endLog, a.id, <<>>)
                            /\ decodeLog' = heapPut(decodeLog, a.id, <<>>)
                            /\ exportLog' = heapPut(exportLog, a.id, <<>>)
                            /\ ret' = [op |-> "CreateContext", status |-> "SUCCESS",
                                       id |-> a.id, cfg |-> cfg,
                                       num_render_targets |-> num_render_targets,
                                       rt0 |-> IF num_render_targets # 0
                                               THEN surface ELSE NULL]
    /\ UNCHANGED <<surfaces, buffers, syncThread, joining, drvCaps, procVars, beginLog>>

\* pthread_cond_signal(&ctx->resolveCondition): wakes the resolve thread
\* when it waits
signalResolveCondition(rt) ==
    IF rt.pc = "wait" THEN [rt EXCEPT !.pc = "woken"] ELSE rt

\* pthread_cond_signal(&surface->cond): wakes one of the threads waiting in
\* SyncSurface on this Surface, when there is one
signalSurfaceCond(surface, st, st2) ==
    LET waiting == {t \in SyncThreads : st[t].pc = "waiting" /\ st[t].surface = surface}
    IN IF waiting = {} THEN st2 = st
       ELSE \E t \in waiting : st2 = [st EXCEPT ![t].pc = "woken"]

\* ------------------------------------------------------ picture submission
\* the Surface after the first two steps of nvBeginPicture, and whether a
\* picture index was needed and could be handed out
\* a rebind that forgets to detach the backing image
rebindTargetKeepImage(surface, nvCtx) ==
    IF surface.context # NULL /\ surface.context # nvCtx
    THEN [surface EXCEPT !.pictureIdx = NoPictureIdx]
    ELSE surface

rebindTarget(surface, nvCtx) ==
    IF surface.context # NULL /\ surface.context # nvCtx
    THEN [(IF surface.backingImage # NULL
           THEN detachBackingImageFromSurface(surface) ELSE surface)
          EXCEPT !.pictureIdx = NoPictureIdx]
    ELSE surface

\* an exhaustion test that is off by one
pictureIdExhaustedEarly(ctx) == ctx.currentPictureId + 1 = ctx.surfaceCount

pictureIdExhausted(ctx) == ctx.currentPictureId = ctx.surfaceCount

nvBeginPicture(context, render_target) ==
    LET nvCtx == getObjectPtr(objects, context)
        surface == getObjectPtr(objects, render_target)
    IN
    /\ nvCtx \in DOMAIN contexts
    /\ Len(beginLog) < MaxPictures
    /\ IF surface = NULL
       THEN /\ ret' = [op |-> "BeginPicture", status |-> "INVALID_SURFACE",
                       ctx |-> nvCtx, surface |-> NULL]
            /\ UNCHANGED <<surfaces, contexts, beginLog>>
       ELSE
         /\ surface \in DOMAIN surfaces
         /\ LET s0 == surfaces[surface]
                s1 == rebindTarget(s0, nvCtx)
                ctx == contexts[nvCtx]
                R(status) == [op |-> "BeginPicture", status |-> status,
                              ctx |-> nvCtx, surface |-> surface,
                              rebound |-> (s0.context # NULL /\ s0.context # nvCtx),
                              hadImage |-> (s0.backingImage # NULL),
                              needIdx |-> (s1.pictureIdx = NoPictureIdx),
                              handedOut |-> ctx.currentPictureId]
            IN IF s1.pictureIdx = NoPictureIdx /\ pictureIdExhausted(ctx)
               THEN /\ surfaces' = [surfaces EXCEPT ![surface] = s1]
                    /\ ret' = R("MAX_NUM_EXCEEDED")
                    /\ UNCHANGED <<contexts, beginLog>>
               ELSE LET fresh == s1.pictureIdx = NoPictureIdx
                        s2 == IF fresh
                              THEN [s1 EXCEPT !.pictureIdx = ctx.currentPictureId]
                              ELSE s1
                    IN /\ surfaces' = [surfaces EXCEPT
                                          ![surface] = [s2 EXCEPT !.resolving = 1]]
                       /\ contexts' = [contexts EXCEPT ![nvCtx] =
                             [ctx EXCEPT
                                !.currentPictureId = IF fresh THEN @ + 1 ELSE @,
                                !.renderTarget = surface,
                                !.pPicParams = [CurrPicIdx |-> s2.pictureIdx]]]
                       /\ beginLog' = Append(beginLog, [ctx |-> nvCtx,
                                                        surface |-> surface])
                       /\ ret' = R("SUCCESS")
    /\ UNCHANGED <<objects, nextObjId, drvSurfaceCount, configs, buffers, drvCaps, procVars, freed>>
    /\ Unchanged_threads

\* the ring after one more Surface has been stored at the write index
enqueueSurface(ctx, surface) ==
    [ctx EXCEPT
       !.surfaceQueue = [@ EXCEPT ![ctx.surfaceQueueWriteIdx] = surface],
       !.surfaceQueueWriteIdx = IF @ + 1 >= SURFACE_QUEUE_SIZE THEN 0 ELSE @ + 1]

RECURSIVE sumLen(_, _)
sumLen(f, S) ==
    IF S = {} THEN 0
    ELSE LET x == CHOOSE y \in S : TRUE IN Len(f[x]) + sumLen(f, S \ {x})

\* the number of pictures EndPicture has enqueued, over all Contexts
picturesEnded == sumLen(endLog, DOMAIN endLog)

\* pushOk, decodeOk and popOk are the results of cuCtxPushCurrent,
\* cuvidDecodePicture and cuCtxPopCurrent
nvEndPicture(context, pushOk, decodeOk, popOk) ==
    LET nvCtx == getObjectPtr(objects, context)
    IN
    /\ nvCtx \in DOMAIN contexts
    /\ contexts[nvCtx].renderTarget # NULL
    /\ picturesEnded < MaxPictures
    /\ appendLog' = dropLog(nvCtx)
    /\ LET ctx == [contexts[nvCtx] EXCEPT !.bitstreamBuffer.size = 0,
                                          !.sliceOffsets.size = 0]
           surface == ctx.renderTarget
           status == IF decodeOk THEN "SUCCESS" ELSE "DECODING_ERROR"
           R(st, queued) == [op |-> "EndPicture", status |-> st, ctx |-> nvCtx,
                             surface |-> surface,
                             rejected |-> (pushOk /\ ~decodeOk),
                             queued |-> queued]
       IN IF ~pushOk
          THEN /\ ret' = R("OPERATION_FAILED", FALSE)
               /\ contexts' = [contexts EXCEPT ![nvCtx] = ctx]
               /\ UNCHANGED <<surfaces, resolveThread, endLog, decodeLog>>
          ELSE IF ~popOk
          THEN /\ ret' = R("OPERATION_FAILED", FALSE)
               /\ contexts' = [contexts EXCEPT ![nvCtx] = ctx]
               /\ UNCHANGED <<surfaces, resolveThread, endLog, decodeLog>>
          ELSE /\ surfaces' = [surfaces EXCEPT ![surface] =
                                  [@ EXCEPT !.context = nvCtx,
                                            !.decodeFailed = (status # "SUCCESS")]]
               /\ contexts' = [contexts EXCEPT ![nvCtx] = enqueueSurface(ctx, surface)]
               /\ resolveThread' = [resolveThread EXCEPT
                                       ![nvCtx] = signalResolveCondition(@)]
               /\ endLog' = [endLog EXCEPT ![nvCtx] = Append(@, surface)]
               /\ decodeLog' = [decodeLog EXCEPT
                                    ![nvCtx] = Append(@, ctx.pPicParams.CurrPicIdx)]
               /\ ret' = R(status, TRUE)
    /\ UNCHANGED <<objects, nextObjId, drvSurfaceCount, configs, buffers, drvCaps,
                   procVarsButLog, beginLog, freed, syncThread, joining, exportLog>>

\* ---------------------------------------------------------- resolve thread
Unchanged_registry == UNCHANGED <<objects, nextObjId, drvSurfaceCount, configs,
                                   buffers, drvCaps, procVars, beginLog, freed, joining, endLog, decodeLog, ret>>

\* cuCtxPushCurrent at thread start
resolveStart(c, pushOk) ==
    /\ resolveThread[c].pc = "start"
    /\ resolveThread' = [resolveThread EXCEPT
                            ![c].pc = IF pushOk THEN "loop" ELSE "exited"]
    /\ UNCHANGED <<contexts, surfaces, syncThread, exportLog>>
    /\ Unchanged_registry

\* while (!ctx->exiting)
resolveLoop(c) ==
    /\ resolveThread[c].pc = "loop"
    /\ resolveThread' = [resolveThread EXCEPT
                            ![c].pc = IF contexts[c].exiting THEN "exited" ELSE "lock"]
    /\ UNCHANGED <<contexts, surfaces, syncThread, exportLog>>
    /\ Unchanged_registry

queueEmpty(ctx) == ctx.surfaceQueueReadIdx = ctx.surfaceQueueWriteIdx

\* pthread_mutex_lock and the first test of the inner while
resolveLock(c) ==
    /\ resolveThread[c].pc = "lock"
    /\ resolveThread' = [resolveThread EXCEPT
                            ![c].pc = IF queueEmpty(contexts[c]) THEN "wait"
                                      ELSE "dequeue"]
    /\ UNCHANGED <<contexts, surfaces, syncThread, exportLog>>
    /\ Unchanged_registry

\* pthread_cond_wait returns: the exiting test, then the inner while again
resolveWoken(c) ==
    /\ resolveThread[c].pc = "woken"
    /\ resolveThread' = [resolveThread EXCEPT
                            ![c].pc = IF contexts[c].exiting THEN "exited"
                                      ELSE IF queueEmpty(contexts[c]) THEN "wait"
                                      ELSE "dequeue"]
    /\ UNCHANGED <<contexts, surfaces, syncThread, exportLog>>
    /\ Unchanged_registry

dequeueSurface(ctx) ==
    [ctx EXCEPT !.surfaceQueueReadIdx =
                    IF @ + 1 >= SURFACE_QUEUE_SIZE THEN 0 ELSE @ + 1]

\* a consumer that takes the entry stored last instead of the oldest one
queueNewest(ctx) ==
    ctx.surfaceQueue[(ctx.surfaceQueueWriteIdx + SURFACE_QUEUE_SIZE - 1)
                        % SURFACE_QUEUE_SIZE]

\* ctx->surfaceQueue[ctx->surfaceQueueReadIdx]
queueHead(ctx) == ctx.surfaceQueue[ctx.surfaceQueueReadIdx]

resolveDequeue(c) ==
    /\ resolveThread[c].pc = "dequeue"
    /\ resolveThread' = [resolveThread EXCEPT
          ![c] = [pc |-> "resolve", surface |-> queueHead(contexts[c]),
                  taken |-> Append(@.taken, queueHead(contexts[c]))]]
    /\ contexts' = [contexts EXCEPT ![c] = dequeueSurface(@)]
    /\ UNCHANGED <<surfaces, syncThread, exportLog>>
    /\ Unchanged_registry

\* a thread that leaves the flag as it found it
keepResolving(surface) == surface

\* surface->resolving = 0
clearResolving(surface) == [surface EXCEPT !.resolving = 0]

\* the decodeFailed test and cuvidMapVideoFrame; mapOk is its result
resolveMap(c, mapOk) ==
    LET s == resolveThread[c].surface
    IN /\ resolveThread[c].pc = "resolve"
       /\ IF surfaces[s].decodeFailed \/ ~mapOk
          THEN /\ surfaces' = [surfaces EXCEPT ![s] = clearResolving(@)]
               /\ signalSurfaceCond(s, syncThread, syncThread')
               /\ resolveThread' = [resolveThread EXCEPT ![c].pc = "loop"]
          ELSE /\ resolveThread' = [resolveThread EXCEPT ![c].pc = "export"]
               /\ UNCHANGED <<surfaces, syncThread>>
       /\ UNCHANGED <<contexts, exportLog>>
       /\ Unchanged_registry

\* the backend's exportCudaPtr: it fills the Surface's backing image, clears
\* resolving and signals the Surface's condvar
exportCudaPtr(surface) == clearResolving([surface EXCEPT !.backingImage = 1])

\* exportCudaPtr and cuvidUnmapVideoFrame
resolveExport(c) ==
    LET s == resolveThread[c].surface
    IN /\ resolveThread[c].pc = "export"
       /\ surfaces' = [surfaces EXCEPT ![s] = exportCudaPtr(@)]
       /\ signalSurfaceCond(s, syncThread, syncThread')
       /\ exportLog' = [exportLog EXCEPT ![c] = Append(@, s)]
       /\ resolveThread' = [resolveThread EXCEPT ![c].pc = "loop"]
       /\ UNCHANGED contexts
       /\ Unchanged_registry

\* ------------------------------------------------------------ SyncSurface
\* the call up to pthread_cond_wait
nvSyncSurface(t, render_target) ==
    LET surface == getObjectPtr(objects, render_target)
    IN /\ syncThread[t].pc \in {"idle", "returned"}
       /\ surface = NULL \/ surface \in DOMAIN surfaces
       /\ syncThread' = [syncThread EXCEPT ![t] =
             IF surface = NULL
             THEN [pc |-> "returned", surface |-> NULL,
                   status |-> "INVALID_SURFACE", resolving |-> 0]
             ELSE IF surfaces[surface].resolving # 0
             THEN [pc |-> "waiting", surface |-> surface,
                   status |-> "NONE", resolving |-> 1]
             ELSE [pc |-> "returned", surface |-> surface,
                   status |-> "SUCCESS", resolving |-> 0]]
       /\ UNCHANGED <<objects, nextObjId, drvSurfaceCount, configs, contexts,
                      surfaces, buffers, resolveThread, joining, endLog, decodeLog,
                      exportLog, drvCaps, procVars, beginLog, freed, ret>>

\* pthread_cond_wait returns and the call returns; resolving records the
\* Surface's flag at the return
syncReturn(t) ==
    /\ syncThread[t].pc = "woken"
    /\ syncThread' = [syncThread EXCEPT ![t] =
          [@ EXCEPT !.pc = "returned", !.status = "SUCCESS",
                    !.resolving = surfaces[syncThread[t].surface].resolving]]
    /\ UNCHANGED <<objects, nextObjId, drvSurfaceCount, configs, contexts,
                   surfaces, buffers, resolveThread, joining, endLog, decodeLog,
                   exportLog, drvCaps, procVars, beginLog, freed, ret>>

\* --------------------------------------------------------- DestroyContext
\* nvDestroyContext up to pthread_timedjoin_np; pushOk is the result of
\* cuCtxPushCurrent (on failure destroyContext returns at once and the
\* Object is deleted)
nvDestroyContext(context, pushOk) ==
    LET nvCtx == getObjectPtr(objects, context)
    IN /\ nvCtx = NULL \/ (nvCtx \in DOMAIN resolveThread /\ nvCtx \notin joining)
       /\ IF nvCtx = NULL
          THEN /\ ret' = [op |-> "DestroyContext", status |-> "INVALID_CONTEXT"]
               /\ UNCHANGED <<objects, contexts, resolveThread, joining, freed>>
          ELSE IF ~pushOk
          THEN /\ objects' = deleteObject(objects, context)
               /\ freed' = freed \cup freedBy(objects, context)
               /\ ret' = [op |-> "DestroyContext", status |-> "OPERATION_FAILED"]
               /\ UNCHANGED <<contexts, resolveThread, joining>>
          ELSE /\ contexts' = [contexts EXCEPT ![nvCtx].exiting = TRUE]
               /\ resolveThread' = [resolveThread EXCEPT
                                       ![nvCtx] = signalResolveCondition(@)]
               /\ joining' = joining \cup {nvCtx}
               /\ UNCHANGED <<objects, ret, freed>>
       /\ UNCHANGED <<nextObjId, drvSurfaceCount, configs, surfaces, buffers,
                      drvCaps, procVars, beginLog, syncThread, endLog, decodeLog, exportLog>>

\* pthread_timedjoin_np returns, because the resolve thread has exited or
\* because the 5 s deadline has passed, and the rest of nvDestroyContext;
\* destroyOk and popOk are the results of cuvidDestroyDecoder and
\* cuCtxPopCurrent
nvDestroyContextJoined(nvCtx, destroyOk, popOk) ==
    /\ nvCtx \in joining
    /\ joining' = joining \ {nvCtx}
    /\ contexts' = [contexts EXCEPT ![nvCtx].decoder = NULL,
                                    ![nvCtx].sliceOffsets = freeBuffer(@),
                                    ![nvCtx].bitstreamBuffer = freeBuffer(@)]
    /\ appendLog' = dropLog(nvCtx)
    /\ objects' = deleteObject(objects, nvCtx)
    /\ freed' = freed \cup freedBy(objects, nvCtx)
    /\ ret' = [op |-> "DestroyContext",
               status |-> IF destroyOk /\ popOk THEN "SUCCESS" ELSE "OPERATION_FAILED",
               id |-> nvCtx, threadExited |-> (resolveThread[nvCtx].pc = "exited")]
    /\ UNCHANGED <<nextObjId, drvSurfaceCount, configs, surfaces, buffers, drvCaps,
                   procVarsButLog, beginLog, resolveThread, syncThread, endLog, decodeLog,
                   exportLog>>

\* pthread_timedjoin_np has returned and cuvidDestroyDecoder, called with no
\* deadline, does not return: the call stays inside destroyContext (the
\* decoder of a Context that is being destroyed is never NULL: CreateContext
\* registers the Context only after cuvidCreateDecoder succeeded)
nvDestroyContextHang(nvCtx) ==
    /\ nvCtx \in joining
    /\ joining' = joining \ {nvCtx}
    /\ hung' = hung \cup {nvCtx}
    /\ contexts' = [contexts EXCEPT ![nvCtx].sliceOffsets = freeBuffer(@),
                                    ![nvCtx].bitstreamBuffer = freeBuffer(@)]
    /\ appendLog' = dropLog(nvCtx)
    /\ UNCHANGED <<objects, nextObjId, drvSurfaceCount, configs, surfaces,
                   buffers, drvCaps, beginLog, resolveThread, syncThread, endLog, decodeLog,
                   exportLog, freed, ret, instances, max_instances, initThread,
                   gpuSupport, stubVars, allocThread, ctxStackDepth, codecs, crashed>>

\* ----------------------------------------------------------------- Buffers
\* allocOk is whether memalign returned memory
nvCreateBuffer(context, type, allocOk) ==
    LET nvCtx == getObjectPtr(objects, context)
        a == allocateObject(objects, nextObjId, OBJECT_TYPE_BUFFER)
    IN /\ Cardinality(DOMAIN buffers) < MaxBuffers
       /\ nvCtx = NULL \/ nvCtx \in DOMAIN contexts
       /\ IF nvCtx = NULL
          THEN /\ ret' = [op |-> "CreateBuffer", status |-> "INVALID_CONTEXT"]
               /\ UNCHANGED <<objects, nextObjId, buffers>>
          ELSE /\ objects' = a.objects
               /\ nextObjId' = a.nextObjId
               /\ buffers' = heapPut(buffers, a.id,
                                [bufferType |-> type, ptr |-> IF allocOk THEN 1 ELSE NULL])
               /\ ret' = [op |-> "CreateBuffer",
                          status |-> IF allocOk THEN "SUCCESS" ELSE "ALLOCATION_FAILED",
                          id |-> a.id]
       /\ UNCHANGED <<drvSurfaceCount, configs, contexts, surfaces, drvCaps, procVars, beginLog, freed>>
       /\ Unchanged_threads

nvDestroyBuffer(buffer_id) ==
    LET buf == getObjectPtr(objects, buffer_id)
    IN /\ buf = NULL \/ buf \in DOMAIN buffers
       /\ IF buf = NULL
          THEN /\ ret' = [op |-> "DestroyBuffer", status |-> "INVALID_BUFFER",
                          id |-> buffer_id, found |-> getObject(objects, buffer_id)]
               /\ UNCHANGED <<objects, buffers, freed>>
          ELSE /\ buffers' = [buffers EXCEPT ![buf].ptr = NULL]
               /\ objects' = deleteObject(objects, buffer_id)
               /\ freed' = freed \cup freedBy(objects, buffer_id)
               /\ ret' = [op |-> "DestroyBuffer", status |-> "SUCCESS",
                          id |-> buffer_id, found |-> getObject(objects, buffer_id)]
       /\ UNCHANGED <<nextObjId, drvSurfaceCount, configs, contexts, surfaces, drvCaps, procVars, beginLog>>

       /\ Unchanged_threads

\* ----------------------------------------------------- ExportSurfaceHandle
\* the backend's realiseSurface: afterwards the Surface has a backing image
realiseSurface(surface) == [surface EXCEPT !.backingImage = 1]

\* guards tested in the other order
exportGuardFlagsFirst(prime2, separateLayers) ==
    IF ~separateLayers THEN "INVALID_SURFACE"
    ELSE IF ~prime2 THEN "UNSUPPORTED_MEMORY_TYPE"
    ELSE "SUCCESS"

\* the tests of mem_type and flags: the status they return, "SUCCESS" when
\* the call goes on
exportGuard(prime2, separateLayers) ==
    IF ~prime2 THEN "UNSUPPORTED_MEMORY_TYPE"
    ELSE IF ~separateLayers THEN "INVALID_SURFACE"
    ELSE "SUCCESS"

\* prime2 and separateLayers are whether mem_type includes DRM_PRIME_2 and
\* flags include SEPARATE_LAYERS; pushOk, realiseOk and popOk are the results
\* of cuCtxPushCurrent, realiseSurface and cuCtxPopCurrent. The return value
\* records whether realiseSurface and fillExportDescriptor were called.
nvExportSurfaceHandle(surface_id, prime2, separateLayers, pushOk, realiseOk, popOk) ==
    LET surface == getObjectPtr(objects, surface_id)
        R(status, realised, filled) ==
            [op |-> "ExportSurfaceHandle", status |-> status, id |-> surface_id,
             prime2 |-> prime2, separateLayers |-> separateLayers,
             surface |-> surface,
             cudaOk |-> (pushOk /\ realiseOk /\ popOk),
             realised |-> realised, filled |-> filled]
    IN /\ surface = NULL \/ surface \in DOMAIN surfaces
       /\ ctxStackDepth < MaxCtxDepth
       /\ IF exportGuard(prime2, separateLayers) # "SUCCESS"
          THEN /\ ret' = R(exportGuard(prime2, separateLayers), FALSE, FALSE)
               /\ UNCHANGED <<surfaces, ctxStackDepth>>
          ELSE IF surface = NULL
          THEN /\ ret' = R("INVALID_SURFACE", FALSE, FALSE)
               /\ UNCHANGED <<surfaces, ctxStackDepth>>
          ELSE IF ~pushOk
          THEN /\ ret' = R("OPERATION_FAILED", FALSE, FALSE)
               /\ UNCHANGED <<surfaces, ctxStackDepth>>
          ELSE IF ~realiseOk
          THEN /\ ret' = R("ALLOCATION_FAILED", TRUE, FALSE)
               /\ ctxStackDepth' = ctxStackDepth + 1
               /\ UNCHANGED surfaces
          ELSE /\ surfaces' = [surfaces EXCEPT ![surface] = realiseSurface(@)]
               /\ ret' = R(IF popOk THEN "SUCCESS" ELSE "OPERATION_FAILED",
                           TRUE, TRUE)
               /\ UNCHANGED ctxStackDepth
       /\ UNCHANGED <<objects, nextObjId, drvSurfaceCount, configs, contexts,
                      buffers, drvCaps, procVarsButDepth, beginLog, freed>>
       /\ Unchanged_threads

\* --------------------------------------------------------- specifications
\* the ids of live Objects of this type, one unknown id and VA_INVALID_ID
IdsOf(type) == liveIds(type) \cup {nextObjId + 1, VA_INVALID_ID}

\* all results succeed, or exactly the i-th of n fails
OneFails(n) == {[i \in 1 .. n |-> i # k] : k \in 0 .. n}

RenderTargetCounts == {0, MaxDecodeSurfaces + 1} \cup (1 .. MaxRenderTargets)

CreateConfig ==
    \E profile \in {"HEVCMain", "None"}, entrypoint \in {"VLD", "EncSlice"} :
        nvCreateConfig(profile, entrypoint, "NONE")

DestroyConfig == \E id \in ClientIds : nvDestroyConfig(id)

CreateSurfaces2 ==
    \E format \in {"YUV420", "RGB32"}, pushOk, popOk \in BOOLEAN :
        nvCreateSurfaces2(format, pushOk, popOk)

DestroySurfaces == \E id \in liveIds(OBJECT_TYPE_SURFACE) : nvDestroySurfaces(id)

CreateContext ==
    \E config_id \in IdsOf(OBJECT_TYPE_CONFIG), n \in RenderTargetCounts,
       rt0 \in IdsOf(OBJECT_TYPE_SURFACE), ok \in OneFails(3) :
        nvCreateContext(config_id, n, rt0, ok[1], ok[2], ok[3])

DestroyContext ==
    \E context \in IdsOf(OBJECT_TYPE_CONTEXT), pushOk \in BOOLEAN :
        nvDestroyContext(context, pushOk)

DestroyContextJoined ==
    \E nvCtx \in joining, destroyOk, popOk \in BOOLEAN :
        nvDestroyContextJoined(nvCtx, destroyOk, popOk)

CreateBuffer ==
    \E context \in IdsOf(OBJECT_TYPE_CONTEXT), allocOk \in BOOLEAN :
        nvCreateBuffer(context, "VASliceDataBufferType", allocOk)

DestroyBuffer == \E id \in IdsOf(OBJECT_TYPE_BUFFER) : nvDestroyBuffer(id)

\* the registry and the Object lifecycle, from driver init
Next ==
    \/ CreateConfig
    \/ DestroyConfig
    \/ CreateSurfaces2
    \/ DestroySurfaces
    \/ CreateContext
    \/ DestroyContext
    \/ DestroyContextJoined
    \/ CreateBuffer
    \/ DestroyBuffer

Spec == Init /\ [][Next]_vars

\* The state after CreateConfig(HEVCMain, VLD), nS CreateSurfaces2(YUV420, 1)
\* calls and one CreateContext per element of counts, with that many render
\* targets: the Config is Object 1, the Surfaces are Objects 2 .. nS + 1, the
\* Contexts follow.  Each resolve thread is at its start.
SetupState(nS, counts) ==
    LET nC == Len(counts)
        cfg == newConfig("HEVCMain", "VLD", "NONE", drvCaps)
        cfg1 == inheritSurfaceFormat(cfg, newSurface(surfaceFormatOf("YUV420")))
        ctxIds == (nS + 2) .. (nS + 1 + nC)
    IN /\ nS >= 1
       /\ drvCaps = [supports16BitSurface |-> TRUE, supports444Surface |-> TRUE]
       /\ freed = {}
       /\ beginLog = <<>>
       /\ OneInstance
       /\ objects = [i \in 1 .. (nS + 1 + nC) |->
                       [id |-> i,
                        type |-> IF i = 1 THEN OBJECT_TYPE_CONFIG
                                 ELSE IF i <= nS + 1 THEN OBJECT_TYPE_SURFACE
                                 ELSE OBJECT_TYPE_CONTEXT]]
       /\ nextObjId = nS + 1 + nC
       /\ drvSurfaceCount = 0
       /\ configs = [i \in {1} |-> cfg1]
       /\ surfaces = [i \in 2 .. (nS + 1) |-> newSurface(surfaceFormatOf("YUV420"))]
       /\ contexts = [i \in ctxIds |->
                        newContext(cfg1, contextSurfaceCount(counts[i - (nS + 1)]))]
       /\ buffers = <<>>
       /\ resolveThread = [i \in ctxIds |-> [pc |-> "start", surface |-> NULL, taken |-> <<>>]]
       /\ syncThread = [t \in SyncThreads |-> [pc |-> "idle", surface |-> NULL,
                                               status |-> "NONE", resolving |-> 0]]
       /\ joining = {}
       /\ endLog = [i \in ctxIds |-> <<>>]
       /\ decodeLog = [i \in ctxIds |-> <<>>]
       /\ exportLog = [i \in ctxIds |-> <<>>]
       /\ ret = [op |-> "CreateContext", status |-> "SUCCESS", id |-> nS + 1 + nC]

BeginPicture ==
    \E context \in liveIds(OBJECT_TYPE_CONTEXT), render_target \in IdsOf(OBJECT_TYPE_SURFACE) :
        nvBeginPicture(context, render_target)

EndPicture ==
    \E context \in liveIds(OBJECT_TYPE_CONTEXT), pushOk, decodeOk, popOk \in BOOLEAN :
        nvEndPicture(context, pushOk, decodeOk, popOk)

ExportSurfaceHandle ==
    \E id \in IdsOf(OBJECT_TYPE_SURFACE),
       prime2, separateLayers, pushOk, realiseOk, popOk \in BOOLEAN :
        nvExportSurfaceHandle(id, prime2, separateLayers, pushOk, realiseOk, popOk)

\* picture submission by the client over PictureContexts Contexts and
\* MaxSurfaces Surfaces, the resolve threads not yet scheduled; the first
\* Context was created with MaxRenderTargets render targets, the others
\* with one
InitPicture ==
    SetupState(MaxSurfaces,
               [i \in 1 .. PictureContexts |->
                    IF i = 1 THEN MaxRenderTargets ELSE 1])

\* the same calls with every CUDA and backend call succeeding
ExportSurface ==
    \E id \in liveIds(OBJECT_TYPE_SURFACE) :
        nvExportSurfaceHandle(id, TRUE, TRUE, TRUE, TRUE, TRUE)

EndPictureDecoded ==
    \E context \in liveIds(OBJECT_TYPE_CONTEXT) :
        nvEndPicture(context, TRUE, TRUE, TRUE)

NextPicture ==
    \/ BeginPicture
    \/ EndPictureDecoded
    \/ ExportSurface
    \/ DestroySurfaces

SpecPicture == InitPicture /\ [][NextPicture]_vars

SyncSurface ==
    \E t \in SyncThreads, render_target \in IdsOf(OBJECT_TYPE_SURFACE) :
        nvSyncSurface(t, render_target)

SyncReturn == \E t \in SyncThreads : syncReturn(t)

ResolveStart == \E c \in DOMAIN resolveThread, pushOk \in BOOLEAN : resolveStart(c, pushOk)
ResolveLoop == \E c \in DOMAIN resolveThread : resolveLoop(c)
ResolveLock == \E c \in DOMAIN resolveThread : resolveLock(c)
ResolveWoken == \E c \in DOMAIN resolveThread : resolveWoken(c)
ResolveDequeue == \E c \in DOMAIN resolveThread : resolveDequeue(c)
ResolveMap == \E c \in DOMAIN resolveThread, mapOk \in BOOLEAN : resolveMap(c, mapOk)
ResolveExport == \E c \in DOMAIN resolveThread : resolveExport(c)

\* one Context decoding into MaxSurfaces Surfaces, with its resolve thread
InitResolve == SetupState(MaxSurfaces, <<MaxRenderTargets>>)

NextResolve ==
    \/ BeginPicture
    \/ EndPicture
    \/ ResolveStart
    \/ ResolveLoop
    \/ ResolveLock
    \/ ResolveWoken
    \/ ResolveDequeue
    \/ ResolveMap
    \/ ResolveExport

SpecResolve == InitResolve /\ [][NextResolve]_vars

\* one Context decoding into one Surface, with its resolve thread and the
\* client threads that call SyncSurface
InitSync == SetupState(1, <<1>>)

NextSync ==
    \/ BeginPicture
    \/ EndPicture
    \/ SyncSurface
    \/ SyncReturn
    \/ ResolveStart
    \/ ResolveLoop
    \/ ResolveLock
    \/ ResolveWoken
    \/ ResolveDequeue
    \/ ResolveMap
    \/ ResolveExport

SpecSync == InitSync /\ [][NextSync]_vars


\* ------------------------------------------- driver init and Terminate
Unchanged_driver ==
    UNCHANGED <<objects, nextObjId, drvSurfaceCount, configs, contexts, surfaces,
                buffers, resolveThread, syncThread, joining, beginLog, endLog, decodeLog,
                exportLog, drvCaps, freed, hung, max_instances, gpuSupport, stubVars, allocThread, ctxStackDepth, codecs,
                crashed,
                appendLog>>

\* a cap test that admits one instance too many
capReachedLate(n, m) == m > 0 /\ n > m

\* max_instances > 0 && instances >= max_instances
capReached(n, m) == m > 0 /\ n >= m

\* __vaDriverInit_1_0 up to the unlock of concurrency_mutex; modesetOk is
\* the result of checkModesetParameterFromFd on a DRM fd of the NVIDIA driver
vaDriverInitGate(t, modesetOk) ==
    /\ initThread[t].pc \in {"idle", "returned", "terminated"}
    /\ initThread[t].pc = "returned" => initThread[t].status # "SUCCESS"
    /\ initThread[t].calls < MaxInitCalls
    /\ instances <= MaxInstances
    /\ LET R(st, after) == [op |-> "vaDriverInit", thread |-> t, status |-> st,
                            before |-> instances, after |-> after]
           T(pc, st) == [initThread EXCEPT ![t] =
                            [@ EXCEPT !.pc = pc, !.status = st, !.calls = @ + 1]]
       IN IF ~modesetOk
          THEN /\ initThread' = T("returned", "OPERATION_FAILED")
               /\ ret' = R("OPERATION_FAILED", instances)
               /\ UNCHANGED instances
          ELSE IF capReached(instances, max_instances)
          THEN /\ initThread' = T("returned", "HW_BUSY")
               /\ ret' = R("HW_BUSY", instances)
               /\ UNCHANGED instances
          ELSE /\ instances' = instances + 1
               /\ initThread' = T("admitted", "NONE")
               /\ ret' = R("ADMITTED", instances + 1)
    /\ Unchanged_driver

\* the rest of __vaDriverInit_1_0; libsOk says the CUDA and NVDEC function
\* tables were loaded, exporterOk and ctxOk are the results of initExporter
\* and cuCtxCreate
vaDriverInitSetup(t, libsOk, exporterOk, ctxOk) ==
    /\ initThread[t].pc = "admitted"
    /\ LET st == IF libsOk /\ exporterOk /\ ctxOk THEN "SUCCESS"
                 ELSE "OPERATION_FAILED"
       IN /\ initThread' = [initThread EXCEPT ![t] =
                               [@ EXCEPT !.pc = "returned", !.status = st]]
          /\ ret' = [op |-> "vaDriverInit", thread |-> t, status |-> st,
                     before |-> instances, after |-> instances]
    /\ UNCHANGED instances
    /\ Unchanged_driver

\* nvTerminate of a Driver Instance that holds no live Context; pushOk, popOk
\* and destroyOk are the results of cuCtxPushCurrent, cuCtxPopCurrent and
\* cuCtxDestroy
nvTerminate(t, pushOk, popOk, destroyOk) ==
    /\ initThread[t].pc = "returned"
    /\ initThread[t].status = "SUCCESS"
    /\ liveIds(OBJECT_TYPE_CONTEXT) = {}
    /\ LET decremented == pushOk /\ popOk
           after == IF decremented THEN instances - 1 ELSE instances
           st == IF pushOk /\ popOk /\ destroyOk THEN "SUCCESS"
                 ELSE "OPERATION_FAILED"
       IN /\ instances' = after
          /\ initThread' = [initThread EXCEPT ![t] =
                               [@ EXCEPT !.pc = "terminated", !.status = st,
                                         !.terminated = TRUE]]
          /\ ret' = [op |-> "Terminate", thread |-> t, status |-> st,
                     before |-> instances, after |-> after]
    /\ Unchanged_driver

VaDriverInitGate ==
    \E t \in InitThreads, modesetOk \in BOOLEAN : vaDriverInitGate(t, modesetOk)

VaDriverInitSetup ==
    \E t \in InitThreads, ok \in OneFails(3) :
        vaDriverInitSetup(t, ok[1], ok[2], ok[3])

Terminate ==
    \E t \in InitThreads, ok \in OneFails(3) : nvTerminate(t, ok[1], ok[2], ok[3])

\* the process before any __vaDriverInit_1_0, for each NVD_MAX_INSTANCES
InitInstance ==
    /\ objects = <<>>
    /\ nextObjId = 0
    /\ drvSurfaceCount = 0
    /\ configs = <<>>
    /\ contexts = <<>>
    /\ surfaces = <<>>
    /\ buffers = <<>>
    /\ resolveThread = <<>>
    /\ syncThread = [t \in SyncThreads |-> [pc |-> "idle", surface |-> NULL,
                                            status |-> "NONE", resolving |-> 0]]
    /\ joining = {}
    /\ beginLog = <<>>
    /\ endLog = <<>>
    /\ decodeLog = <<>>
    /\ exportLog = <<>>
    /\ drvCaps = [supports16BitSurface |-> TRUE, supports444Surface |-> TRUE]
    /\ freed = {}
    /\ ret = [op |-> "load", status |-> "SUCCESS"]
    /\ instances = 0
    /\ max_instances \in 0 .. MaxInstances
    /\ initThread = [t \in InitThreads |->
                        [pc |-> "idle", status |-> "NONE", calls |-> 0,
                         terminated |-> FALSE]]
    /\ hung = {}
    /\ gpuSupport = AllProbes
    /\ allocThread = [t \in AllocThreads |-> [pc |-> "idle", id |-> 0, type |-> "NONE"]]
    /\ ctxStackDepth = 0
    /\ codecs = nvd_codecs
    /\ surface_pool = [j \in 0 .. (MAX_SURFACES - 1) |-> [surface_id |-> 0, allocated |-> 0]]
    /\ next_surface_id = 1
    /\ context_pool = [i \in 0 .. (MAX_CONTEXTS - 1) |-> [context_id |-> 0, allocated |-> 0]]
    /\ next_context_id = 1
    /\ crashed = FALSE
    /\ appendLog = <<>>

NextInstance ==
    \/ VaDriverInitGate
    \/ VaDriverInitSetup
    \/ Terminate

SpecInstance == InitInstance /\ [][NextInstance]_vars

DestroyContextHang == \E nvCtx \in joining : nvDestroyContextHang(nvCtx)

\* one Context with its resolve thread, decoding into one Surface and then
\* destroyed; the vendor decoder may fail or hang on destroy
InitDestroy == SetupState(1, <<1>>)

NextDestroy ==
    \/ BeginPicture
    \/ EndPicture
    \/ ResolveStart
    \/ ResolveLoop
    \/ ResolveLock
    \/ ResolveWoken
    \/ ResolveDequeue
    \/ ResolveMap
    \/ ResolveExport
    \/ DestroyContext
    \/ DestroyContextJoined
    \/ DestroyContextHang

SpecDestroy == InitDestroy /\ [][NextDestroy]_vars

\* Configs of every kind of profile created and destroyed, on a device with
\* any capabilities
ConfigProfiles ==
    {"None", "H264High", "HEVCMain", "HEVCMain10", "HEVCMain444",
     "HEVCMain444_12", "VP9Profile2", "AV1Profile0", "AV1Profile1"}

CreateConfigAny ==
    \E profile \in ConfigProfiles, entrypoint \in {"VLD", "EncSlice"},
       rt \in {"NONE", "YUV420_10", "YUV444_12"} :
        nvCreateConfig(profile, entrypoint, rt)

InitConfig ==
    /\ objects = <<>>
    /\ nextObjId = 0
    /\ drvSurfaceCount = 0
    /\ configs = <<>>
    /\ contexts = <<>>
    /\ surfaces = <<>>
    /\ buffers = <<>>
    /\ resolveThread = <<>>
    /\ syncThread = [t \in SyncThreads |-> [pc |-> "idle", surface |-> NULL,
                                            status |-> "NONE", resolving |-> 0]]
    /\ joining = {}
    /\ beginLog = <<>>
    /\ endLog = <<>>
    /\ decodeLog = <<>>
    /\ exportLog = <<>>
    /\ drvCaps \in [supports16BitSurface : BOOLEAN, supports444Surface : BOOLEAN]
    /\ freed = {}
    /\ ret = [op |-> "init", status |-> "SUCCESS"]
    /\ OneInstance

NextConfig ==
    \/ CreateConfigAny
    \/ DestroyConfig

SpecConfig == InitConfig /\ [][NextConfig]_vars

\* Contexts created on Surfaces of several formats
CreateSurfacesAny ==
    \E format \in {"YUV420", "YUV420_10", "YUV444"}, pushOk, popOk \in BOOLEAN :
        nvCreateSurfaces2(format, pushOk, popOk)

NextContext ==
    \/ CreateConfig
    \/ CreateSurfacesAny
    \/ CreateContext

SpecContext == Init /\ [][NextContext]_vars

\* the creation calls, with their failures
NextCreate ==
    \/ CreateConfig
    \/ CreateSurfacesAny
    \/ CreateContext
    \/ CreateBuffer

SpecCreate == Init /\ [][NextCreate]_vars

\* Surfaces exported and destroyed
InitExport == SetupState(MaxSurfaces, <<1>>)

NextExport ==
    \/ ExportSurfaceHandle
    \/ DestroySurfaces

SpecExport == InitExport /\ [][NextExport]_vars

\* Surfaces and Contexts created and Surfaces destroyed, from driver init
NextSurfaces ==
    \/ CreateConfig
    \/ CreateSurfaces2
    \/ DestroySurfaces
    \/ CreateContext

SpecSurfaces == Init /\ [][NextSurfaces]_vars

\* ------------------------------------------------- stub driver slot pools
\* everything but the slot pools and the last call
Unchanged_backend ==
    /\ UNCHANGED <<objects, nextObjId, drvSurfaceCount, configs, contexts, surfaces,
                   buffers, drvCaps, beginLog, freed, instances, max_instances,
                   initThread, hung, gpuSupport, codecs, ctxStackDepth, crashed,
                   allocThread, appendLog>>
    /\ Unchanged_threads

freeSurfaceSlots(pool) == {j \in DOMAIN pool : pool[j].allocated = 0}
freeContextSlots(pool) == {i \in DOMAIN pool : pool[i].allocated = 0}

\* the first free slot, MAX_SURFACES when none is free
firstFreeSlot(pool) ==
    IF freeSurfaceSlots(pool) = {} THEN MAX_SURFACES
    ELSE CHOOSE j \in freeSurfaceSlots(pool) : \A k \in freeSurfaceSlots(pool) : j <= k

\* the outer loop of vaCreateSurfaces from the i-th surface on: the pool,
\* the id counter, and whether every surface so far found a slot
RECURSIVE createSurfacesLoop(_, _, _, _)
createSurfacesLoop(pool, next, i, num_surfaces) ==
    IF i >= num_surfaces THEN [pool |-> pool, next |-> next, found |-> TRUE]
    ELSE LET j == firstFreeSlot(pool)
         IN IF j = MAX_SURFACES
            THEN [pool |-> pool, next |-> next, found |-> FALSE]
            ELSE createSurfacesLoop(
                     [pool EXCEPT ![j] = [surface_id |-> next, allocated |-> 1]],
                     next + 1, i + 1, num_surfaces)

\* surfacesOk is whether the surfaces out pointer is not NULL
vaCreateSurfaces(num_surfaces, surfacesOk) ==
    LET r == createSurfacesLoop(surface_pool, next_surface_id, 0, num_surfaces)
        R(status) == [op |-> "vaCreateSurfaces", status |-> status,
                      num_surfaces |-> num_surfaces,
                      freeBefore |-> Cardinality(freeSurfaceSlots(surface_pool))]
    IN /\ next_surface_id + num_surfaces <= MaxStubIds + 1
       /\ IF ~surfacesOk
          THEN /\ ret' = R("INVALID_PARAMETER")
               /\ UNCHANGED <<surface_pool, next_surface_id>>
          ELSE /\ surface_pool' = r.pool
               /\ next_surface_id' = r.next
               /\ ret' = R(IF r.found THEN "SUCCESS" ELSE "ALLOCATION_FAILED")
       /\ UNCHANGED <<context_pool, next_context_id>>
       /\ Unchanged_backend

\* the slot of an allocated surface id, MAX_SURFACES when there is none
slotOf(pool, id) ==
    LET S == {j \in DOMAIN pool : pool[j].allocated # 0 /\ pool[j].surface_id = id}
    IN IF S = {} THEN MAX_SURFACES
       ELSE CHOOSE j \in S : \A k \in S : j <= k

RECURSIVE destroySurfacesLoop(_, _, _)
destroySurfacesLoop(pool, ids, i) ==
    IF i > Len(ids) THEN pool
    ELSE destroySurfacesLoop(
             IF slotOf(pool, ids[i]) = MAX_SURFACES THEN pool
             ELSE [pool EXCEPT ![slotOf(pool, ids[i])].allocated = 0],
             ids, i + 1)

vaDestroySurfaces(ids, surfacesOk) ==
    /\ IF ~surfacesOk
       THEN /\ ret' = [op |-> "vaDestroySurfaces", status |-> "INVALID_PARAMETER"]
            /\ UNCHANGED surface_pool
       ELSE /\ surface_pool' = destroySurfacesLoop(surface_pool, ids, 1)
            /\ ret' = [op |-> "vaDestroySurfaces", status |-> "SUCCESS"]
    /\ UNCHANGED <<next_surface_id, context_pool, next_context_id>>
    /\ Unchanged_backend

\* contextOk is whether the context out pointer is not NULL
vaCreateContext(contextOk) ==
    LET free == freeContextSlots(context_pool)
        i == CHOOSE k \in free : \A l \in free : k <= l
        R(status, id) == [op |-> "vaCreateContext", status |-> status, id |-> id,
                          freeBefore |-> Cardinality(free)]
    IN /\ next_context_id <= MaxStubIds
       /\ IF ~contextOk
          THEN /\ ret' = R("INVALID_PARAMETER", 0)
               /\ UNCHANGED <<context_pool, next_context_id>>
          ELSE IF free = {}
          THEN /\ ret' = R("ALLOCATION_FAILED", 0)
               /\ UNCHANGED <<context_pool, next_context_id>>
          ELSE /\ context_pool' = [context_pool EXCEPT
                                      ![i] = [context_id |-> next_context_id,
                                              allocated |-> 1]]
               /\ next_context_id' = next_context_id + 1
               /\ ret' = R("SUCCESS", next_context_id)
       /\ UNCHANGED <<surface_pool, next_surface_id>>
       /\ Unchanged_backend

vaDestroyContext(context) ==
    LET S == {i \in DOMAIN context_pool :
                 context_pool[i].allocated # 0 /\ context_pool[i].context_id = context}
    IN /\ IF S = {}
          THEN /\ ret' = [op |-> "vaDestroyContext", status |-> "INVALID_CONTEXT"]
               /\ UNCHANGED context_pool
          ELSE /\ context_pool' = [context_pool EXCEPT
                      ![CHOOSE i \in S : \A k \in S : i <= k].allocated = 0]
               /\ ret' = [op |-> "vaDestroyContext", status |-> "SUCCESS"]
       /\ UNCHANGED <<surface_pool, next_surface_id, next_context_id>>
       /\ Unchanged_backend

VaCreateSurfaces ==
    \E num_surfaces \in 0 .. (MAX_SURFACES + 1), surfacesOk \in BOOLEAN :
        vaCreateSurfaces(num_surfaces, surfacesOk)

VaDestroySurfaces ==
    \E a \in 1 .. MaxStubIds, n \in 1 .. 2, surfacesOk \in BOOLEAN :
        vaDestroySurfaces(IF n = 1 THEN <<a>> ELSE <<a, a + 1>>, surfacesOk)

VaCreateContext == \E contextOk \in BOOLEAN : vaCreateContext(contextOk)

VaDestroyContext == \E context \in 1 .. MaxStubIds : vaDestroyContext(context)

NextStub ==
    \/ VaCreateSurfaces
    \/ VaDestroySurfaces
    \/ VaCreateContext
    \/ VaDestroyContext

SpecStub == Init /\ [][NextStub]_vars

\* ----------------------------------------------------------- RenderPicture
\* the buffer types the selected codec has a handler for
handledTypes ==
    {"VAPictureParameterBufferType", "VAIQMatrixBufferType",
     "VASliceParameterBufferType", "VASliceDataBufferType"}

\* the loop of nvRenderPicture from the i-th buffer id on: the buffers the
\* codec handlers were called with so far, and whether the loop was ended by
\* reading ->obj of the NULL Object that getObject returns for an id that is
\* not in the registry
RECURSIVE renderLoop(_, _, _)
renderLoop(ids, i, dispatched) ==
    IF i > Len(ids) THEN [crashed |-> FALSE, dispatched |-> dispatched]
    ELSE LET o == getObject(objects, ids[i])
         IN IF o = NullObject
            THEN [crashed |-> TRUE, dispatched |-> dispatched]
            ELSE IF buffers[o.id].ptr = NULL
            THEN renderLoop(ids, i + 1, dispatched)
            ELSE IF buffers[o.id].bufferType \in handledTypes
            THEN renderLoop(ids, i + 1, Append(dispatched, o.id))
            ELSE renderLoop(ids, i + 1, dispatched)

nvRenderPicture(context, ids) ==
    LET nvCtx == getObjectPtr(objects, context)
        r == renderLoop(ids, 1, <<>>)
    IN /\ ~crashed
       /\ nvCtx = NULL \/ nvCtx \in DOMAIN contexts
       /\ \A i \in DOMAIN ids :
              getObject(objects, ids[i]) # NullObject => ids[i] \in DOMAIN buffers
       /\ IF nvCtx = NULL
          THEN /\ ret' = [op |-> "RenderPicture", status |-> "INVALID_CONTEXT",
                          ctx |-> NULL, buffers |-> ids, dispatched |-> <<>>]
               /\ UNCHANGED crashed
          ELSE /\ ret' = [op |-> "RenderPicture",
                          status |-> IF r.crashed THEN "SIGSEGV" ELSE "SUCCESS",
                          ctx |-> nvCtx, buffers |-> ids,
                          dispatched |-> r.dispatched]
               /\ crashed' = r.crashed
       /\ UNCHANGED <<objects, nextObjId, drvSurfaceCount, configs, contexts,
                      surfaces, buffers, drvCaps, beginLog, freed, instances,
                      max_instances, initThread, hung, gpuSupport, stubVars, allocThread, ctxStackDepth, codecs, appendLog>>
       /\ Unchanged_threads

\* the buffer id lists a client passes
RECURSIVE RenderLists(_, _)
RenderLists(S, n) ==
    IF n = 0 THEN {<<>>}
    ELSE LET prev == RenderLists(S, n - 1)
         IN prev \cup {Append(q, x) : q \in prev, x \in S}

RenderPicture ==
    \E context \in IdsOf(OBJECT_TYPE_CONTEXT),
       ids \in RenderLists(IdsOf(OBJECT_TYPE_BUFFER), MaxRenderBuffers) :
        nvRenderPicture(context, ids)

CreateBufferAny ==
    /\ ~crashed
    /\ \E context \in liveIds(OBJECT_TYPE_CONTEXT), allocOk \in BOOLEAN,
          type \in {"VASliceDataBufferType", "VAPictureParameterBufferType",
                    "VAProcPipelineParameterBufferType"} :
           nvCreateBuffer(context, type, allocOk)

DestroyBufferLive ==
    /\ ~crashed
    /\ \E id \in liveIds(OBJECT_TYPE_BUFFER) : nvDestroyBuffer(id)

InitRender == SetupState(1, <<1>>)

NextRender ==
    \/ CreateBufferAny
    \/ DestroyBufferLive
    \/ RenderPicture

SpecRender == InitRender /\ [][NextRender]_vars

\* ------------------------------------------------- appending to a buffer
\* a codec handler appends data to the bitstreamBuffer of a live Context
\* and the call returns
appendBitstream(nvCtx, data, zeroAllocNull) ==
    /\ nvCtx \in liveIds(OBJECT_TYPE_CONTEXT)
    /\ nvCtx \notin hung
    /\ contexts[nvCtx].bitstreamBuffer.size + Len(data) <= MaxBufferBytes
    /\ ~growthDiverges(contexts[nvCtx].bitstreamBuffer, Len(data))
    /\ contexts' = [contexts EXCEPT ![nvCtx].bitstreamBuffer =
                                        appendBuffer(@, data, zeroAllocNull)]
    /\ appendLog' = heapPut(appendLog, nvCtx, logOf(nvCtx) \o data)
    /\ ret' = [op |-> "appendBuffer", ctx |-> nvCtx, status |-> "SUCCESS",
               before |-> contexts[nvCtx].bitstreamBuffer.allocated,
               grown |-> (contexts[nvCtx].bitstreamBuffer.allocated > 0
                            /\ contexts'[nvCtx].bitstreamBuffer.allocated
                                  > contexts[nvCtx].bitstreamBuffer.allocated)]
    /\ UNCHANGED <<objects, nextObjId, drvSurfaceCount, configs, surfaces, buffers,
                   drvCaps, procVarsButLog, beginLog, freed>>
    /\ Unchanged_threads

\* the same call when the growth loop of appendBuffer never ends
appendBitstreamSpins(nvCtx, data) ==
    /\ nvCtx \in liveIds(OBJECT_TYPE_CONTEXT)
    /\ nvCtx \notin hung
    /\ contexts[nvCtx].bitstreamBuffer.size + Len(data) <= MaxBufferBytes
    /\ growthDiverges(contexts[nvCtx].bitstreamBuffer, Len(data))
    /\ hung' = hung \cup {nvCtx}
    /\ UNCHANGED <<objects, nextObjId, drvSurfaceCount, configs, contexts, surfaces,
                   buffers, drvCaps, beginLog, freed, ret, instances, max_instances,
                   initThread, gpuSupport, stubVars, allocThread, ctxStackDepth, codecs, crashed, appendLog>>
    /\ Unchanged_threads

\* the byte strings appended
RECURSIVE SeqsUpTo(_, _)
SeqsUpTo(S, n) ==
    IF n = 0 THEN {<<>>}
    ELSE LET prev == SeqsUpTo(S, n - 1)
         IN prev \cup {Append(q, x) : q \in prev, x \in S}

AppendBitstream ==
    \E nvCtx \in liveIds(OBJECT_TYPE_CONTEXT), data \in SeqsUpTo(Bytes, MaxAppendLen),
       zeroAllocNull \in BOOLEAN :
        appendBitstream(nvCtx, data, zeroAllocNull)

AppendBitstreamSpins ==
    \E nvCtx \in liveIds(OBJECT_TYPE_CONTEXT), data \in SeqsUpTo(Bytes, MaxAppendLen) :
        appendBitstreamSpins(nvCtx, data)

\* the pictures of one Context, with the appends between BeginPicture and
\* EndPicture
EndPictureReset ==
    \E context \in liveIds(OBJECT_TYPE_CONTEXT) \ hung, ok \in OneFails(3) :
        nvEndPicture(context, ok[1], ok[2], ok[3])

InitAppend == SetupState(1, <<1>>)

NextAppend ==
    \/ BeginPicture
    \/ AppendBitstream
    \/ AppendBitstreamSpins
    \/ EndPictureReset

SpecAppend == InitAppend /\ [][NextAppend]_vars

\* ------------------------------------------------------ capability queries
\* cuvidGetDecoderCaps reports the triple as supported
doesGPUSupportCodec(codec, bitDepth, chromaFormat) ==
    <<codec, bitDepth, chromaFormat>> \in gpuSupport

\* every probe made, whatever the capability flags
probeEnabledAlways(p, caps) == TRUE

\* the capability flags that enclose a probe are set
probeEnabled(p, caps) ==
    /\ p.needs16 => caps.supports16BitSurface
    /\ p.needs444 => caps.supports444Surface

\* profile_list after the probes from the i-th on have appended their
\* profiles to list
RECURSIVE probeProfiles(_, _, _)
probeProfiles(list, i, caps) ==
    IF i > Len(profileProbes) THEN list
    ELSE LET p == profileProbes[i]
         IN probeProfiles(
                IF probeEnabled(p, caps)
                   /\ doesGPUSupportCodec(p.codec, p.bitDepth, p.chroma)
                THEN list \o p.profiles ELSE list,
                i + 1, caps)

\* the final loop: an entry no registered codec translates is removed by
\* moving the entries after it down by one, and the same index is looked
\* at again
RECURSIVE filterTranslated(_, _)
filterTranslated(list, i) ==
    IF i > Len(list) THEN list
    ELSE IF vaToCuCodec(list[i]) = "NONE"
    THEN filterTranslated([x \in 1 .. (Len(list) - 1) |->
                              IF x < i THEN list[x] ELSE list[x + 1]], i)
    ELSE filterTranslated(list, i + 1)

\* pushOk and popOk are the results of cuCtxPushCurrent and cuCtxPopCurrent;
\* written is whether *num_profiles was assigned
nvQueryConfigProfiles(pushOk, popOk) ==
    LET list == filterTranslated(probeProfiles(<<>>, 1, drvCaps), 1)
    IN /\ ret' = IF ~pushOk
                 THEN [op |-> "QueryConfigProfiles", status |-> "OPERATION_FAILED",
                       written |-> FALSE, profile_list |-> <<>>, num_profiles |-> 0]
                 ELSE [op |-> "QueryConfigProfiles",
                       status |-> IF popOk THEN "SUCCESS" ELSE "OPERATION_FAILED",
                       written |-> TRUE, profile_list |-> list,
                       num_profiles |-> Len(list)]
       /\ UNCHANGED <<objects, nextObjId, drvSurfaceCount, configs, contexts,
                      surfaces, buffers, drvCaps, procVars, beginLog, freed>>
       /\ Unchanged_threads

QueryConfigProfiles ==
    \E pushOk, popOk \in BOOLEAN : nvQueryConfigProfiles(pushOk, popOk)

\* the subsets of S with at most k elements
RECURSIVE SubsetsUpTo(_, _)
SubsetsUpTo(S, k) ==
    IF k = 0 THEN {{}}
    ELSE LET prev == SubsetsUpTo(S, k - 1)
         IN prev \cup {s \cup {x} : s \in prev, x \in S}

\* the devices tried
GpuSupports ==
    SubsetsUpTo(AllProbes, MaxGpuDelta)
        \cup {AllProbes \ s : s \in SubsetsUpTo(AllProbes, MaxGpuDelta)}

\* a device of any of the kinds tried, with any capability flags
InitProfiles ==
    /\ objects = <<>>
    /\ nextObjId = 0
    /\ drvSurfaceCount = 0
    /\ configs = <<>>
    /\ contexts = <<>>
    /\ surfaces = <<>>
    /\ buffers = <<>>
    /\ resolveThread = <<>>
    /\ syncThread = [t \in SyncThreads |-> [pc |-> "idle", surface |-> NULL,
                                            status |-> "NONE", resolving |-> 0]]
    /\ joining = {}
    /\ beginLog = <<>>
    /\ endLog = <<>>
    /\ decodeLog = <<>>
    /\ exportLog = <<>>
    /\ drvCaps \in [supports16BitSurface : BOOLEAN, supports444Surface : BOOLEAN]
    /\ freed = {}
    /\ ret = [op |-> "init", status |-> "SUCCESS"]
    /\ instances = 1
    /\ max_instances = 0
    /\ initThread = [t \in InitThreads |->
                        IF t = 1
                        THEN [pc |-> "returned", status |-> "SUCCESS", calls |-> 1,
                              terminated |-> FALSE]
                        ELSE [pc |-> "idle", status |-> "NONE", calls |-> 0,
                              terminated |-> FALSE]]
    /\ hung = {}
    /\ gpuSupport \in GpuSupports
    /\ allocThread = [t \in AllocThreads |-> [pc |-> "idle", id |-> 0, type |-> "NONE"]]
    /\ ctxStackDepth = 0
    /\ codecs = nvd_codecs
    /\ surface_pool = [j \in 0 .. (MAX_SURFACES - 1) |-> [surface_id |-> 0, allocated |-> 0]]
    /\ next_surface_id = 1
    /\ context_pool = [i \in 0 .. (MAX_CONTEXTS - 1) |-> [context_id |-> 0, allocated |-> 0]]
    /\ next_context_id = 1
    /\ crashed = FALSE
    /\ appendLog = <<>>

NextProfiles == QueryConfigProfiles

SpecProfiles == InitProfiles /\ [][NextProfiles]_vars

\* ------------------------------------------------- unsupported operations
\* The entry points that do no work: the status each one returns and the
\* counts it writes to its out parameters.
unsupportedOps ==
    {
      [op |-> "nvQuerySurfaceStatus", status |-> "UNIMPLEMENTED", counts |-> <<>>],
      [op |-> "nvQuerySurfaceError", status |-> "UNIMPLEMENTED", counts |-> <<>>],
      [op |-> "nvPutSurface", status |-> "UNIMPLEMENTED", counts |-> <<>>],
      [op |-> "nvDeriveImage", status |-> "OPERATION_FAILED", counts |-> <<>>],
      [op |-> "nvPutImage", status |-> "SUCCESS", counts |-> <<>>],
      [op |-> "nvQuerySubpictureFormats", status |-> "SUCCESS", counts |-> <<0>>],
      [op |-> "nvCreateSubpicture", status |-> "UNIMPLEMENTED", counts |-> <<>>],
      [op |-> "nvDestroySubpicture", status |-> "UNIMPLEMENTED", counts |-> <<>>],
      [op |-> "nvSetSubpictureImage", status |-> "UNIMPLEMENTED", counts |-> <<>>],
      [op |-> "nvSetSubpictureChromakey", status |-> "UNIMPLEMENTED", counts |-> <<>>],
      [op |-> "nvSetSubpictureGlobalAlpha", status |-> "UNIMPLEMENTED", counts |-> <<>>],
      [op |-> "nvAssociateSubpicture", status |-> "UNIMPLEMENTED", counts |-> <<>>],
      [op |-> "nvDeassociateSubpicture", status |-> "UNIMPLEMENTED", counts |-> <<>>],
      [op |-> "nvQueryDisplayAttributes", status |-> "SUCCESS", counts |-> <<0>>],
      [op |-> "nvGetDisplayAttributes", status |-> "UNIMPLEMENTED", counts |-> <<>>],
      [op |-> "nvSetDisplayAttributes", status |-> "UNIMPLEMENTED", counts |-> <<>>],
      [op |-> "nvBufferInfo", status |-> "SUCCESS", counts |-> <<0, 0>>],
      [op |-> "nvAcquireBufferHandle", status |-> "UNIMPLEMENTED", counts |-> <<>>],
      [op |-> "nvReleaseBufferHandle", status |-> "UNIMPLEMENTED", counts |-> <<>>],
      [op |-> "nvLockSurface", status |-> "UNIMPLEMENTED", counts |-> <<>>],
      [op |-> "nvUnlockSurface", status |-> "UNIMPLEMENTED", counts |-> <<>>],
      [op |-> "nvCreateMFContext", status |-> "UNIMPLEMENTED", counts |-> <<>>],
      [op |-> "nvMFAddContext", status |-> "UNIMPLEMENTED", counts |-> <<>>],
      [op |-> "nvMFReleaseContext", status |-> "UNIMPLEMENTED", counts |-> <<>>],
      [op |-> "nvMFSubmit", status |-> "UNIMPLEMENTED", counts |-> <<>>],
      [op |-> "nvCreateBuffer2", status |-> "UNIMPLEMENTED", counts |-> <<>>],
      [op |-> "nvQueryProcessingRate", status |-> "UNIMPLEMENTED", counts |-> <<>>]
    }

\* an unsupported entry point: it returns its status and touches nothing
nvUnsupported(o) ==
    /\ ret' = o
    /\ UNCHANGED <<objects, nextObjId, drvSurfaceCount, configs, contexts,
                   surfaces, buffers, drvCaps, procVars, beginLog, freed>>
    /\ Unchanged_threads

Unsupported == \E o \in unsupportedOps : nvUnsupported(o)

\* unsupported operations among the calls that create and destroy Surfaces
NextUnsupported ==
    \/ Unsupported
    \/ CreateConfig
    \/ CreateSurfaces2
    \/ DestroySurfaces
    \/ CreateContext

SpecUnsupported == Init /\ [][NextUnsupported]_vars

\* ------------------------------------------------------ ids not registered
\* nvBeginPicture with a Context id the registry does not hold: nvCtx is NULL
\* and is never tested, so the Surface is rebound and marked before the
\* first access through nvCtx faults
nvBeginPictureNullContext(context, render_target) ==
    LET nvCtx == getObjectPtr(objects, context)
        surface == getObjectPtr(objects, render_target)
    IN
    /\ ~crashed
    /\ nvCtx = NULL
    /\ IF surface = NULL
       THEN /\ ret' = [op |-> "BeginPicture", status |-> "INVALID_SURFACE",
                       ctx |-> NULL, surface |-> NULL]
            /\ UNCHANGED <<surfaces, crashed>>
       ELSE /\ surface \in DOMAIN surfaces
            /\ LET s1 == rebindTarget(surfaces[surface], nvCtx)
                   s2 == IF s1.pictureIdx = NoPictureIdx
                         THEN s1
                         ELSE [s1 EXCEPT !.resolving = 1]
               IN /\ surfaces' = [surfaces EXCEPT ![surface] = s2]
                  /\ crashed' = TRUE
                  /\ ret' = [op |-> "BeginPicture", status |-> "SIGSEGV",
                             ctx |-> NULL, surface |-> surface]
    /\ UNCHANGED <<objects, nextObjId, drvSurfaceCount, configs, contexts,
                   buffers, drvCaps, beginLog, freed, procVarsButCrashed>>
    /\ Unchanged_threads

\* nvEndPicture with a Context id the registry does not hold: getObject
\* returns NULL and its obj field is read
nvEndPictureNullObject(context) ==
    /\ ~crashed
    /\ getObject(objects, context) = NullObject
    /\ crashed' = TRUE
    /\ ret' = [op |-> "EndPicture", status |-> "SIGSEGV", ctx |-> NULL]
    /\ UNCHANGED <<objects, nextObjId, drvSurfaceCount, configs, contexts, surfaces,
                   buffers, drvCaps, beginLog, freed, procVarsButCrashed>>
    /\ Unchanged_threads

\* nvDestroySurfaces with a Surface id the registry does not hold: the NULL
\* surface is read for the log line
nvDestroySurfacesNullSurface(surface_id) ==
    /\ ~crashed
    /\ getObjectPtr(objects, surface_id) = NULL
    /\ crashed' = TRUE
    /\ ret' = [op |-> "DestroySurfaces", status |-> "SIGSEGV", id |-> surface_id,
               found |-> FALSE]
    /\ UNCHANGED <<objects, nextObjId, drvSurfaceCount, configs, contexts, surfaces,
                   buffers, drvCaps, beginLog, freed, procVarsButCrashed>>
    /\ Unchanged_threads

\* ids that were never allocated, ids of destroyed objects and ids of
\* objects of another type
StaleIds == (1 .. (nextObjId + 1)) \cup {VA_INVALID_ID}

BeginPictureNullContext ==
    \E context \in StaleIds \ liveIds(OBJECT_TYPE_CONTEXT),
       render_target \in IdsOf(OBJECT_TYPE_SURFACE) :
        nvBeginPictureNullContext(context, render_target)

EndPictureNullObject ==
    \E context \in StaleIds : nvEndPictureNullObject(context)

DestroySurfacesNullSurface ==
    \E id \in StaleIds : nvDestroySurfacesNullSurface(id)

BeginPictureLive == ~crashed /\ BeginPicture
EndPictureLive == ~crashed /\ EndPictureDecoded
DestroySurfacesLive == ~crashed /\ DestroySurfaces

InitStale == SetupState(MaxSurfaces, <<MaxRenderTargets>>)

NextStale ==
    \/ BeginPictureLive
    \/ EndPictureLive
    \/ DestroySurfacesLive
    \/ BeginPictureNullContext
    \/ EndPictureNullObject
    \/ DestroySurfacesNullSurface

SpecStale == InitStale /\ [][NextStale]_vars





\* ------------------------------------------------- DestroyContext, liveness
\* the resolve thread is a running pthread: the scheduler eventually runs
\* each of its steps that stays possible; a thread blocked in
\* pthread_cond_wait has no step until it is signalled
ResolveThreadFairness ==
    /\ WF_vars(ResolveStart)
    /\ WF_vars(ResolveLoop)
    /\ WF_vars(ResolveLock)
    /\ WF_vars(ResolveWoken)
    /\ WF_vars(ResolveDequeue)
    /\ WF_vars(ResolveMap)
    /\ WF_vars(ResolveExport)

SpecDestroyLive == InitDestroy /\ [][NextDestroy]_vars /\ ResolveThreadFairness



\* ------------------------------------------------------- codec selection
\* codec tables a build can register: the table of this build, one in which
\* a second codec also lists H264High, and one in which no codec lists the
\* AV1 profiles
CodecTables ==
    {nvd_codecs,
     Append(nvd_codecs, [codec |-> "H264", supportedProfiles |-> {"H264High"}]),
     SubSeq(nvd_codecs, 1, Len(nvd_codecs) - 1)}

InitCodecs ==
    /\ objects = <<>>
    /\ nextObjId = 0
    /\ drvSurfaceCount = 0
    /\ configs = <<>>
    /\ contexts = <<>>
    /\ surfaces = <<>>
    /\ buffers = <<>>
    /\ resolveThread = <<>>
    /\ syncThread = [t \in SyncThreads |-> [pc |-> "idle", surface |-> NULL,
                                            status |-> "NONE", resolving |-> 0]]
    /\ joining = {}
    /\ beginLog = <<>>
    /\ endLog = <<>>
    /\ decodeLog = <<>>
    /\ exportLog = <<>>
    /\ drvCaps = [supports16BitSurface |-> TRUE, supports444Surface |-> TRUE]
    /\ freed = {}
    /\ ret = [op |-> "init", status |-> "SUCCESS"]
    /\ instances = 1
    /\ max_instances = 0
    /\ initThread = [t \in InitThreads |->
                        IF t = 1
                        THEN [pc |-> "returned", status |-> "SUCCESS", calls |-> 1,
                              terminated |-> FALSE]
                        ELSE [pc |-> "idle", status |-> "NONE", calls |-> 0,
                              terminated |-> FALSE]]
    /\ hung = {}
    /\ gpuSupport = AllProbes
    /\ allocThread = [t \in AllocThreads |-> [pc |-> "idle", id |-> 0, type |-> "NONE"]]
    /\ ctxStackDepth = 0
    /\ codecs \in CodecTables
    /\ surface_pool = [j \in 0 .. (MAX_SURFACES - 1) |-> [surface_id |-> 0, allocated |-> 0]]
    /\ next_surface_id = 1
    /\ context_pool = [i \in 0 .. (MAX_CONTEXTS - 1) |-> [context_id |-> 0, allocated |-> 0]]
    /\ next_context_id = 1
    /\ crashed = FALSE
    /\ appendLog = <<>>

\* CreateConfig on a profile two codecs may list, one none may list, and one
\* that exactly one lists
CreateConfigCodec ==
    \E profile \in {"H264High", "AV1Profile0", "HEVCMain"} :
        nvCreateConfig(profile, "VLD", "NONE")

NextCodecs ==
    \/ CreateConfigCodec
    \/ CreateSurfaces2
    \/ CreateContext

SpecCodecs == InitCodecs /\ [][NextCodecs]_vars

\* ------------------------------------------------ device context push / pop
\* nvGetImage on a Surface that was decoded into and exported (its context
\* and backing image are set) once nvSyncSurface has returned; pushOk,
\* copyOk and popOk are the results of cuCtxPushCurrent, of the cuMemcpy2D
\* calls and of cuCtxPopCurrent
nvGetImage(surface_id, pushOk, copyOk, popOk) ==
    LET surface == getObjectPtr(objects, surface_id)
        R(status) == [op |-> "GetImage", status |-> status, id |-> surface_id]
    IN /\ surface \in DOMAIN surfaces
       /\ ctxStackDepth < MaxCtxDepth
       /\ IF surfaces[surface].context = NULL
          THEN ret' = R("INVALID_CONTEXT") /\ UNCHANGED ctxStackDepth
          ELSE /\ surfaces[surface].resolving = 0
               /\ surfaces[surface].backingImage # NULL
               /\ IF ~pushOk
                  THEN ret' = R("OPERATION_FAILED") /\ UNCHANGED ctxStackDepth
                  ELSE IF ~copyOk
                  THEN /\ ret' = R("DECODING_ERROR")
                       /\ ctxStackDepth' = ctxStackDepth + 1
                  ELSE /\ ret' = R(IF popOk THEN "SUCCESS" ELSE "OPERATION_FAILED")
                       /\ UNCHANGED ctxStackDepth
       /\ UNCHANGED <<objects, nextObjId, drvSurfaceCount, configs, contexts, surfaces,
                      buffers, drvCaps, procVarsButDepth, beginLog, freed>>
       /\ Unchanged_threads

\* the tests nvQuerySurfaceAttributes makes on the Config before it counts
\* or fills attributes
surfaceAttributesGuard(cfg) ==
    IF cfg.chromaFormat \notin {"420", "444"} THEN "INVALID_CONFIG"
    ELSE IF (cfg.chromaFormat = "444" \/ cfg.surfaceFormat = "YUV444_16Bit")
               /\ ~drvCaps.supports444Surface THEN "INVALID_CONFIG"
    ELSE IF cfg.surfaceFormat = "P016" /\ ~drvCaps.supports16BitSurface
    THEN "INVALID_CONFIG"
    ELSE "SUCCESS"

\* hasList is whether attrib_list is not NULL; pushOk, capsOk and popOk are
\* the results of cuCtxPushCurrent, cuvidGetDecoderCaps and cuCtxPopCurrent
nvQuerySurfaceAttributes(config, hasList, pushOk, capsOk, popOk) ==
    LET cfg == getObjectPtr(objects, config)
        R(status) == [op |-> "QuerySurfaceAttributes", status |-> status,
                      cfg |-> cfg]
    IN /\ cfg = NULL \/ cfg \in DOMAIN configs
       /\ ctxStackDepth < MaxCtxDepth
       /\ IF cfg = NULL
          THEN ret' = R("INVALID_CONFIG") /\ UNCHANGED ctxStackDepth
          ELSE IF surfaceAttributesGuard(configs[cfg]) # "SUCCESS"
          THEN ret' = R("INVALID_CONFIG") /\ UNCHANGED ctxStackDepth
          ELSE IF ~hasList
          THEN ret' = R("SUCCESS") /\ UNCHANGED ctxStackDepth
          ELSE IF ~pushOk
          THEN ret' = R("OPERATION_FAILED") /\ UNCHANGED ctxStackDepth
          ELSE IF ~capsOk
          THEN /\ ret' = R("OPERATION_FAILED")
               /\ ctxStackDepth' = ctxStackDepth + 1
          ELSE /\ ret' = R(IF popOk THEN "SUCCESS" ELSE "OPERATION_FAILED")
               /\ UNCHANGED ctxStackDepth
       /\ UNCHANGED <<objects, nextObjId, drvSurfaceCount, configs, contexts, surfaces,
                      buffers, drvCaps, procVarsButDepth, beginLog, freed>>
       /\ Unchanged_threads

GetImage ==
    \E id \in liveIds(OBJECT_TYPE_SURFACE), ok \in OneFails(3) :
        nvGetImage(id, ok[1], ok[2], ok[3])

QuerySurfaceAttributes ==
    \E config \in IdsOf(OBJECT_TYPE_CONFIG), hasList \in BOOLEAN, ok \in OneFails(3) :
        nvQuerySurfaceAttributes(config, hasList, ok[1], ok[2], ok[3])

ExportSurfaceHandleLive ==
    \E id \in liveIds(OBJECT_TYPE_SURFACE), ok \in OneFails(3) :
        nvExportSurfaceHandle(id, TRUE, TRUE, ok[1], ok[2], ok[3])

\* one Context decoding into one Surface, which is exported and read back
InitPush == SetupState(1, <<1>>)

NextPush ==
    \/ BeginPicture
    \/ EndPictureDecoded
    \/ ResolveStart
    \/ ResolveLoop
    \/ ResolveLock
    \/ ResolveWoken
    \/ ResolveDequeue
    \/ ResolveMap
    \/ ResolveExport
    \/ ExportSurfaceHandleLive
    \/ GetImage
    \/ QuerySurfaceAttributes

SpecPush == InitPush /\ [][NextPush]_vars

\* ------------------------------------------------- Terminate with Contexts
\* the ids deleteAllObjects visits as Contexts: ARRAY_FOR_EACH walks the list
\* by index against its current length, and deleteObject removes the entry
\* at the index the walk is on, so the walk steps over the entry that moved
\* into its place
RECURSIVE sweepContexts(_, _, _)
sweepContexts(list, idx, visited) ==
    IF idx > Len(list) THEN [objects |-> list, visited |-> visited]
    ELSE IF list[idx].type = OBJECT_TYPE_CONTEXT
    THEN sweepContexts(deleteObject(list, list[idx].id), idx + 1,
                       Append(visited, list[idx].id))
    ELSE sweepContexts(list, idx + 1, visited)

deleteAllObjects(list) == sweepContexts(list, 1, <<>>)

\* destroyContext on a Context payload, after its timed join
destroyedContext(ctx) ==
    [ctx EXCEPT !.exiting = TRUE, !.decoder = NULL,
                !.sliceOffsets = freeBuffer(@), !.bitstreamBuffer = freeBuffer(@)]

instanceLive(t) == initThread[t].pc = "returned" /\ initThread[t].status = "SUCCESS"

\* nvTerminate of a Driver Instance whatever its registry holds; pushOk,
\* popOk and destroyOk are the results of cuCtxPushCurrent, cuCtxPopCurrent
\* and cuCtxDestroy, joined says whether the resolve threads exited within
\* the deadline of the join
nvTerminateAll(t, pushOk, popOk, destroyOk, joined) ==
    LET r == deleteAllObjects(objects)
        gone == {r.visited[i] : i \in 1 .. Len(r.visited)}
        decremented == pushOk /\ popOk
        after == IF decremented THEN instances - 1 ELSE instances
        st == IF pushOk /\ popOk /\ destroyOk THEN "SUCCESS" ELSE "OPERATION_FAILED"
    IN /\ instanceLive(t)
       /\ joining = {}
       /\ instances' = after
       /\ initThread' = [initThread EXCEPT ![t] =
                            [@ EXCEPT !.pc = "terminated", !.status = st,
                                      !.terminated = TRUE]]
       /\ ret' = [op |-> "Terminate", thread |-> t, status |-> st,
                  before |-> instances, after |-> after, swept |-> pushOk,
                  contextsBefore |-> liveIds(OBJECT_TYPE_CONTEXT),
                  destroyed |-> IF pushOk THEN gone ELSE {}]
       /\ IF ~pushOk
          THEN UNCHANGED <<objects, contexts, surfaces, resolveThread, freed, appendLog>>
          ELSE /\ objects' = r.objects
               /\ freed' = freed \cup gone
               /\ surfaces' = [s \in DOMAIN surfaces |->
                                  detachBackingImageFromSurface(surfaces[s])]
               /\ contexts' = [c \in DOMAIN contexts |->
                                  IF c \in gone THEN destroyedContext(contexts[c])
                                  ELSE contexts[c]]
               /\ resolveThread' = [c \in DOMAIN resolveThread |->
                     IF c \notin gone THEN resolveThread[c]
                     ELSE IF joined THEN [resolveThread[c] EXCEPT !.pc = "exited"]
                     ELSE signalResolveCondition(resolveThread[c])]
               /\ appendLog' = [c \in (DOMAIN appendLog) \ gone |-> appendLog[c]]
       /\ UNCHANGED <<nextObjId, drvSurfaceCount, configs, buffers, syncThread, joining,
                      beginLog, endLog, decodeLog, exportLog, drvCaps, hung, max_instances,
                      gpuSupport, stubVars, allocThread, ctxStackDepth, codecs, crashed>>

TerminateAll ==
    \E ok \in OneFails(3), joined \in BOOLEAN :
        nvTerminateAll(1, ok[1], ok[2], ok[3], joined)

BeginPictureInstance == instanceLive(1) /\ BeginPicture
DestroySurfacesInstance == instanceLive(1) /\ DestroySurfaces
CreateSurfacesInstance == instanceLive(1) /\ CreateSurfaces2
DestroyContextInstance == instanceLive(1) /\ DestroyContext
DestroyContextJoinedInstance == instanceLive(1) /\ DestroyContextJoined

\* two Contexts created one after the other, then Surfaces and Contexts
\* destroyed and created in any order before Terminate
InitTerminate == SetupState(1, <<1, 1>>)

NextTerminate ==
    \/ BeginPictureInstance
    \/ DestroySurfacesInstance
    \/ CreateSurfacesInstance
    \/ DestroyContextInstance
    \/ DestroyContextJoinedInstance
    \/ TerminateAll

SpecTerminate == InitTerminate /\ [][NextTerminate]_vars

\* ------------------------------------------- allocateObject, client threads
procVarsButAlloc == <<instances, max_instances, initThread, hung, gpuSupport, stubVars, ctxStackDepth, codecs, crashed, appendLog>>

\* the allocateObject calls begun, those not yet in the registry included
allocsBegun == Len(objects) + Cardinality({t \in AllocThreads : allocThread[t].pc # "idle"})

\* ++drv->nextObjId is made outside objectCreationMutex on a plain field: its
\* read and its store are separate steps of the calling thread
allocateObjectRead(t, type) ==
    /\ allocThread[t].pc = "idle"
    /\ allocsBegun < MaxAllocs
    /\ allocThread' = [allocThread EXCEPT
                          ![t] = [pc |-> "read", id |-> nextObjId, type |-> type]]
    /\ UNCHANGED <<objects, nextObjId, ret>>

\* the store of the incremented value; the same value is the new Object's id
allocateObjectStore(t) ==
    /\ allocThread[t].pc = "read"
    /\ nextObjId' = allocThread[t].id + 1
    /\ allocThread' = [allocThread EXCEPT ![t].pc = "stored", ![t].id = @ + 1]
    /\ UNCHANGED <<objects, ret>>

\* add_element under objectCreationMutex
allocateObjectAdd(t) ==
    /\ allocThread[t].pc = "stored"
    /\ objects' = add_element(objects, [id |-> allocThread[t].id,
                                        type |-> allocThread[t].type])
    /\ allocThread' = [allocThread EXCEPT ![t].pc = "idle"]
    /\ ret' = [op |-> "allocateObject", status |-> "SUCCESS", thread |-> t,
               id |-> allocThread[t].id]
    /\ UNCHANGED nextObjId

Unchanged_payloads ==
    /\ UNCHANGED <<drvSurfaceCount, configs, contexts, surfaces, buffers, drvCaps,
                   beginLog, freed, procVarsButAlloc>>
    /\ Unchanged_threads

AllocateObjectRead ==
    /\ \E t \in AllocThreads, type \in {OBJECT_TYPE_CONFIG, OBJECT_TYPE_SURFACE} :
          allocateObjectRead(t, type)
    /\ Unchanged_payloads

AllocateObjectStore ==
    (\E t \in AllocThreads : allocateObjectStore(t)) /\ Unchanged_payloads

AllocateObjectAdd ==
    (\E t \in AllocThreads : allocateObjectAdd(t)) /\ Unchanged_payloads

NextAlloc ==
    \/ AllocateObjectRead
    \/ AllocateObjectStore
    \/ AllocateObjectAdd

SpecAlloc == Init /\ [][NextAlloc]_vars

\* ------------------------------------------- MapVideoFrame's picture index
\* the picture index resolveSurfaces passes to cuvidMapVideoFrame for the
\* Surface it holds: surface->pictureIdx, read when the frame is mapped
mapVideoFrameIdx(c) == surfaces[resolveThread[c].surface].pictureIdx

\* two Contexts sharing one Surface, each with its resolve thread; at most
\* MaxMapPictures pictures are begun and one fewer is ended
BeginPictureMap == Len(beginLog) < MaxMapPictures /\ BeginPicture

EndPictureMap == picturesEnded + 1 < MaxMapPictures /\ EndPictureDecoded

NextMap ==
    \/ BeginPictureMap
    \/ EndPictureMap
    \/ ResolveStart
    \/ ResolveLoop
    \/ ResolveLock
    \/ ResolveWoken
    \/ ResolveDequeue
    \/ ResolveMap
    \/ ResolveExport

InitMap == SetupState(1, <<1, 1>>)

SpecMap == InitMap /\ [][NextMap]_vars





\* ------------------------------------ Surfaces destroyed while decoding
\* one Context decoding into MaxSurfaces Surfaces with its resolve thread,
\* the client destroying Surfaces at any time
NextUse ==
    \/ BeginPicture
    \/ EndPictureDecoded
    \/ ResolveStart
    \/ ResolveLoop
    \/ ResolveLock
    \/ ResolveWoken
    \/ ResolveDequeue
    \/ ResolveMap
    \/ ResolveExport
    \/ DestroySurfaces

SpecUse == InitResolve /\ [][NextUse]_vars









\* ------------------------------------------------------------- properties
RECURSIVE IsSubseq(_, _)
\* a is b with some of its entries left out
IsSubseq(a, b) ==
    IF a = <<>> THEN TRUE
    ELSE IF b = <<>> THEN FALSE
    ELSE IF Head(a) = Head(b) THEN IsSubseq(Tail(a), Tail(b))
    ELSE IsSubseq(a, Tail(b))

\* the Context of the last successful BeginPicture on a Surface, NULL when
\* there was none
lastBeginOn(s) ==
    LET I == {i \in 1 .. Len(beginLog) : beginLog[i].surface = s}
    IN IF I = {} THEN NULL
       ELSE beginLog[CHOOSE i \in I : \A j \in I : j <= i].ctx

\* C1: within one Context the resolve thread calls exportCudaPtr on the
\* Surfaces in the order EndPicture enqueued them: the sequence of exports is
\* the sequence of enqueues with some entries left out, never reordered.
C1_ResolveInEnqueueOrder ==
    \A c \in DOMAIN exportLog : IsSubseq(exportLog[c], endLog[c])

\* C1 witness: two different Surfaces enqueued one after the other have both
\* been exported.
C1_Witness ==
    \E c \in DOMAIN exportLog :
        /\ Len(exportLog[c]) >= 2
        /\ exportLog[c][1] # exportLog[c][2]
        /\ Len(endLog[c]) >= 2

\* C2: SyncSurface never returns SUCCESS from its wait while the Surface's
\* resolving flag is nonzero.
C2_SyncReturnsResolved ==
    \A t \in SyncThreads :
        (syncThread[t].pc = "returned" /\ syncThread[t].status = "SUCCESS")
            => syncThread[t].resolving = 0

\* C3: when the vendor decoder rejects the picture, EndPicture returns
\* DECODING_ERROR, marks the target decodeFailed and enqueues it for resolve.
C3_RejectedPictureEnqueued ==
    (ret.op = "EndPicture" /\ ret.rejected)
        => /\ ret.status = "DECODING_ERROR"
           /\ ret.queued
           /\ surfaces[ret.surface].decodeFailed

\* C4: a BeginPicture that needs a picture index succeeds, and hands out the
\* next index, as long as the Context has handed out fewer than surfaceCount
\* of them (so the surfaceCount-th succeeds), and fails with
\* MAX_NUM_EXCEEDED when it has handed out surfaceCount.
C4_PictureIndexLimit ==
    (ret.op = "BeginPicture" /\ ret.surface # NULL /\ ret.needIdx)
        => LET N == contexts[ret.ctx].surfaceCount
           IN /\ ret.handedOut <= N
              /\ ret.handedOut < N
                    => /\ ret.status = "SUCCESS"
                       /\ surfaces[ret.surface].pictureIdx = ret.handedOut
                       /\ contexts[ret.ctx].currentPictureId = ret.handedOut + 1
              /\ ret.handedOut = N
                    => /\ ret.status = "MAX_NUM_EXCEEDED"
                       /\ contexts[ret.ctx].currentPictureId = N

\* C4 witness: no Surface destroyed, a Context that has begun pictures on
\* surfaceCount Surfaces is refused the next index.
C4_Witness ==
    /\ ret.op = "BeginPicture"
    /\ ret.status = "MAX_NUM_EXCEEDED"
    /\ freed = {}
    /\ ret.handedOut = contexts[ret.ctx].surfaceCount
    /\ Cardinality({i \in 1 .. Len(beginLog) : beginLog[i].ctx = ret.ctx})
          >= contexts[ret.ctx].surfaceCount

\* the live Surfaces whose last picture was begun by Context c
targetsOf(c) == {s \in liveIds(OBJECT_TYPE_SURFACE) : lastBeginOn(s) = c}

\* C5: no two live Surfaces that are render targets of the same Context hold
\* the same pictureIdx.
C5_DistinctPictureIdx ==
    \A c \in DOMAIN contexts :
        \A s1, s2 \in targetsOf(c) :
            (s1 # s2 /\ surfaces[s1].pictureIdx # NoPictureIdx)
                => surfaces[s1].pictureIdx # surfaces[s2].pictureIdx

\* C6: the pictureIdx of a Surface is -1 or inside [0, surfaceCount) of the
\* Context it is being decoded in, and so is the CurrPicIdx BeginPicture
\* writes into that Context's picture parameters.
C6_PictureIdxInRange ==
    \A c \in DOMAIN contexts :
        /\ \A s \in targetsOf(c) :
              \/ surfaces[s].pictureIdx = NoPictureIdx
              \/ surfaces[s].pictureIdx \in 0 .. (contexts[c].surfaceCount - 1)
        /\ (ret.op = "BeginPicture" /\ ret.status = "SUCCESS" /\ ret.ctx = c)
              => contexts[c].pPicParams.CurrPicIdx
                    \in 0 .. (contexts[c].surfaceCount - 1)

\* C7 as stated: when BeginPicture finds the target bound to another Context,
\* at its return the backing image is detached and pictureIdx is -1.
C7_ReboundIdxCleared ==
    (ret.op = "BeginPicture" /\ ret.surface # NULL /\ ret.rebound)
        => /\ surfaces[ret.surface].backingImage = NULL
           /\ surfaces[ret.surface].pictureIdx = NoPictureIdx

\* C7 amended: when BeginPicture finds the target bound to another Context,
\* at its return the backing image is detached and the old pictureIdx is
\* gone: the target holds the index this Context has just handed out, or -1
\* when the call fails with MAX_NUM_EXCEEDED.
C7_ReboundIdxReplaced ==
    (ret.op = "BeginPicture" /\ ret.surface # NULL /\ ret.rebound)
        => /\ surfaces[ret.surface].backingImage = NULL
           /\ ret.needIdx
           /\ ret.status = "SUCCESS"
                 => surfaces[ret.surface].pictureIdx = ret.handedOut
           /\ ret.status # "SUCCESS"
                 => /\ ret.status = "MAX_NUM_EXCEEDED"
                    /\ surfaces[ret.surface].pictureIdx = NoPictureIdx

\* C7 witness: a target that held a backing image and was bound to another
\* Context has been begun successfully.
C7_Witness ==
    /\ ret.op = "BeginPicture"
    /\ ret.status = "SUCCESS"
    /\ ret.rebound
    /\ ret.hadImage

\* C8: the context field of a live Surface is null or the Context that most
\* recently performed BeginPicture on it.
C8_ContextIsLastBegin ==
    \A s \in liveIds(OBJECT_TYPE_SURFACE) :
        surfaces[s].context = NULL \/ surfaces[s].context = lastBeginOn(s)

\* C9: DestroyConfig given the id of a live object that is no Config fails
\* with INVALID_CONFIG and leaves that object in the registry.
C9_WrongTypeRejected ==
    (ret.op = "DestroyConfig" /\ ret.found # NullObject
                              /\ ret.found.type # OBJECT_TYPE_CONFIG)
        => /\ ret.status = "INVALID_CONFIG"
           /\ ret.found.id \in allLiveIds

\* the type under which the payload of an id was allocated
allocatedType(id) ==
    IF id \in DOMAIN configs THEN OBJECT_TYPE_CONFIG
    ELSE IF id \in DOMAIN contexts THEN OBJECT_TYPE_CONTEXT
    ELSE IF id \in DOMAIN surfaces THEN OBJECT_TYPE_SURFACE
    ELSE IF id \in DOMAIN buffers THEN OBJECT_TYPE_BUFFER
    ELSE "NONE"

\* C10: every allocated and not yet deleted Object is found under its id with
\* the type it was allocated with, a deleted id is not found, VA_INVALID_ID is
\* not found, and deleting VA_INVALID_ID or an unknown id changes nothing.
C10_RegistryLookup ==
    /\ \A id \in (1 .. nextObjId) \ freed :
          /\ getObject(objects, id).id = id
          /\ getObject(objects, id).type = allocatedType(id)
          /\ getObjectPtr(objects, id) = id
    /\ \A id \in freed : getObject(objects, id) = NullObject
    /\ getObject(objects, VA_INVALID_ID) = NullObject
    /\ deleteObject(objects, VA_INVALID_ID) = objects
    /\ \A id \in freed \cup {nextObjId + 1} : deleteObject(objects, id) = objects

\* C10 witness: Objects of two types are live and another one was deleted.
C10_Witness ==
    /\ freed # {}
    /\ \E i, j \in 1 .. Len(objects) : objects[i].type # objects[j].type


\* the client threads whose only __vaDriverInit_1_0 call has returned, when
\* these are all the threads and none has called Terminate
allFirstInitsReturned ==
    \A t \in InitThreads :
        /\ initThread[t].pc = "returned"
        /\ initThread[t].calls = 1
        /\ ~initThread[t].terminated

returnedWith(st) == {t \in InitThreads : initThread[t].status = st}

\* what holds of the cap whatever the set-up of an admitted init does
capInvariant ==
    /\ max_instances > 0 => instances <= max_instances
    /\ (ret.op = "vaDriverInit" /\ ret.status = "HW_BUSY")
          => (ret.after = ret.before /\ capReached(ret.before, max_instances))
    /\ (ret.op = "vaDriverInit" /\ ret.status = "ADMITTED")
          => (ret.after = ret.before + 1 /\ ~capReached(ret.before, max_instances))
    /\ max_instances = 0 => returnedWith("HW_BUSY") = {}

C12_TerminateDecrements ==
    ret.op = "Terminate" => ret.after = ret.before - 1


\* C13: the Driver's surfaceCount is never negative and equals the number of
\* live Surface Objects.
C13_SurfaceCountIsLive ==
    /\ drvSurfaceCount >= 0
    /\ drvSurfaceCount = countOf(OBJECT_TYPE_SURFACE)


\* C14: every DestroyContext call returns: a call that has started is either
\* in the join, which ends after 5 s at the latest, or has returned; none is
\* held inside the vendor decoder.
C14_DestroyContextReturns ==
    \A nvCtx \in DOMAIN contexts :
        contexts[nvCtx].exiting => (nvCtx \in joining \/ nvCtx \notin hung)


\* what C15 says of the two guards: without DRM_PRIME_2 the call returns
\* UNSUPPORTED_MEMORY_TYPE, with it but without SEPARATE_LAYERS it returns
\* INVALID_SURFACE, and in both cases the backend is not called
exportGuardsHold ==
    ret.op = "ExportSurfaceHandle"
        => /\ ~ret.prime2
                 => /\ ret.status = "UNSUPPORTED_MEMORY_TYPE"
                    /\ ~ret.realised /\ ~ret.filled
           /\ (ret.prime2 /\ ~ret.separateLayers)
                 => /\ ret.status = "INVALID_SURFACE"
                    /\ ~ret.realised /\ ~ret.filled

C16_UnsupportedReturnsUnimplemented ==
    (\E o \in unsupportedOps : ret.op = o.op)
        => \/ ret.status = "UNIMPLEMENTED"
           \/ /\ ret.status = "SUCCESS"
              /\ ret.counts # <<>>
              /\ \A i \in DOMAIN ret.counts : ret.counts[i] = 0


\* a profile some registered codec translates
translated(profile) ==
    \E i \in DOMAIN nvd_codecs : profile \in nvd_codecs[i].supportedProfiles

\* the profiles whose Config the device capabilities override
overridden(profile, caps) ==
    \/ caps.supports16BitSurface
         /\ profile \in {"HEVCMain10", "HEVCMain12", "VP9Profile2", "AV1Profile0"}
    \/ caps.supports444Surface
         /\ profile \in {"HEVCMain444", "VP9Profile1", "AV1Profile1"}
    \/ caps.supports444Surface /\ caps.supports16BitSurface
         /\ profile \in {"HEVCMain444_10", "HEVCMain444_12", "VP9Profile3",
                         "AV1Profile1"}

createConfigStep ==
    ret'.op = "CreateConfig"
        => IF ~translated(ret'.profile)
           THEN /\ ret'.status = "UNSUPPORTED_PROFILE"
                /\ UNCHANGED <<objects, nextObjId, configs>>
           ELSE IF ret'.entrypoint # "VLD"
           THEN /\ ret'.status = "UNSUPPORTED_ENTRYPOINT"
                /\ UNCHANGED <<objects, nextObjId, configs>>
           ELSE /\ ret'.status = "SUCCESS"
                /\ Len(objects') = Len(objects) + 1
                /\ liveIds(OBJECT_TYPE_CONFIG)' = liveIds(OBJECT_TYPE_CONFIG) \cup {ret'.id}
                /\ ret'.id \notin allLiveIds
                /\ configs'[ret'.id].profile = ret'.profile
                /\ ~overridden(ret'.profile, drvCaps)
                      => /\ configs'[ret'.id].chromaFormat = "420"
                         /\ configs'[ret'.id].surfaceFormat = "NV12"
                         /\ configs'[ret'.id].bitDepth = 8

\* C17: a CreateConfig call with a profile no registered codec translates
\* returns UNSUPPORTED_PROFILE, one with a translated profile and an entrypoint
\* other than VLD returns UNSUPPORTED_ENTRYPOINT, both leaving the registry
\* as it was; any other call adds exactly one Config, with chroma 4:2:0,
\* format NV12 and bit depth 8 unless the profile's override applies.
C17_CreateConfigRejects == [][createConfigStep]_vars

\* C17 witness: a call with an unknown profile and a wrong entrypoint has
\* been rejected for its profile.
C17_Witness ==
    /\ ret.op = "CreateConfig"
    /\ ret.status = "UNSUPPORTED_PROFILE"
    /\ ret.entrypoint # "VLD"
    /\ objects = <<>>


\* the (surface format, chroma format, bit depth) the decoder of a Context
\* was created with
decoderFormat(nvCtx) ==
    <<nvCtx.decoder.OutputFormat, nvCtx.decoder.ChromaFormat,
      nvCtx.decoder.bitDepthMinus8 + 8>>

createContextStep ==
    (ret'.op = "CreateContext" /\ ret'.status = "SUCCESS")
        => decoderFormat(contexts'[ret'.id])
             = IF ret'.num_render_targets > 0
               THEN <<surfaces[ret'.rt0].format, surfaces[ret'.rt0].chromaFormat,
                      surfaces[ret'.rt0].bitDepth>>
               ELSE <<configs[ret'.cfg].surfaceFormat, configs[ret'.cfg].chromaFormat,
                      configs[ret'.cfg].bitDepth>>

\* C18: a CreateContext call given at least one render target creates the
\* decoder with the surface format, chroma format and bit depth of the first
\* render target; given none, with those the Config holds at the call.
C18_DecoderFormatFromRenderTarget == [][createContextStep]_vars

\* C18 witness: a Context of a HEVCMain Config has been created on a
\* YUV420_10 Surface and its decoder has bit depth 10.
C18_Witness ==
    /\ ret.op = "CreateContext"
    /\ ret.status = "SUCCESS"
    /\ ret.num_render_targets > 0
    /\ configs[ret.cfg].profile = "HEVCMain"
    /\ surfaces[ret.rt0].bitDepth = 10
    /\ contexts[ret.id].decoder.bitDepthMinus8 = 2


\* C19: the profile list QueryConfigProfiles returns holds no 10/12-bit
\* profile when supports16BitSurface is false and no 4:4:4 profile when
\* supports444Surface is false, holds only profiles a registered codec
\* translates, holds no profile twice, and is no longer than MAX_PROFILES.
C19_ProfilesGatedByCaps ==
    (ret.op = "QueryConfigProfiles" /\ ret.written)
        => LET list == ret.profile_list
               returned == {list[i] : i \in DOMAIN list}
           IN /\ ~drvCaps.supports16BitSurface
                    => returned \cap {"HEVCMain10", "HEVCMain12", "VP9Profile2",
                                      "HEVCMain444_10", "HEVCMain444_12",
                                      "VP9Profile3"} = {}
              /\ ~drvCaps.supports444Surface
                    => returned \cap {"HEVCMain444", "VP9Profile1", "AV1Profile1"} = {}
              /\ \A profile \in returned : translated(profile)
              /\ \A i, j \in DOMAIN list : list[i] = list[j] => i = j
              /\ ret.num_profiles = Len(list)
              /\ ret.num_profiles <= MAX_PROFILES

\* C19 witness: on a device that decodes 10-bit HEVC, with
\* supports16BitSurface false, a query has returned HEVCMain.
C19_Witness ==
    /\ ret.op = "QueryConfigProfiles"
    /\ ret.status = "SUCCESS"
    /\ ~drvCaps.supports16BitSurface
    /\ <<"HEVC", 10, "420">> \in gpuSupport
    /\ \E i \in DOMAIN ret.profile_list : ret.profile_list[i] = "HEVCMain"


\* C20: in every state the first size bytes of a Context's bitstreamBuffer
\* are the concatenation of the byte strings appended since its size was
\* last set to 0, and size is the sum of their lengths.
C20_AppendRoundTrip ==
    \A nvCtx \in DOMAIN contexts :
        LET ab == contexts[nvCtx].bitstreamBuffer
        IN /\ ab.size = Len(logOf(nvCtx))
           /\ ab.size <= Len(ab.buf)
           /\ SubSeq(ab.buf, 1, ab.size) = logOf(nvCtx)

\* C20 witness: after a reset at EndPicture, an append that made the buffer
\* grow has returned and the buffer holds more than one appended string.
C20_Witness ==
    /\ ret.op = "appendBuffer"
    /\ ret.grown
    /\ endLog[ret.ctx] # <<>>
    /\ Len(logOf(ret.ctx)) > MaxAppendLen


\* C21: a RenderPicture call on a valid Context returns SUCCESS and has
\* called a codec handler for exactly the buffers of its list that are in the
\* registry, have a payload and a type with a handler, in list order.
C21_RenderDispatchesValidBuffers ==
    (ret.op = "RenderPicture" /\ ret.ctx # NULL)
        => LET Valid(id) == /\ id \in liveIds(OBJECT_TYPE_BUFFER)
                            /\ buffers[id].ptr # NULL
                            /\ buffers[id].bufferType \in handledTypes
           IN /\ ret.status = "SUCCESS"
              /\ ret.dispatched = SelectSeq(ret.buffers, Valid)


createFailureStep ==
    (\/ ret'.op = "CreateBuffer" /\ ret'.status = "ALLOCATION_FAILED"
     \/ ret'.op = "CreateContext"
           /\ ret'.status \in {"ALLOCATION_FAILED", "OPERATION_FAILED"})
        => UNCHANGED <<objects, configs, drvSurfaceCount>>

\* C22: a CreateBuffer call that returns ALLOCATION_FAILED and a
\* CreateContext call that returns ALLOCATION_FAILED or OPERATION_FAILED
\* leave the object registry, the Configs and the Driver's surfaceCount as
\* they were before the call.
C22_FailedCreateLeavesNoState == [][createFailureStep]_vars


\* C23: vaCreateSurfaces(n) returns ALLOCATION_FAILED exactly when fewer
\* than n slots are free, and then leaves as many slots free as before;
\* vaCreateContext returns ALLOCATION_FAILED exactly when no context slot is
\* free, and then leaves the context pool full as it was.
C23_StubPoolsRollBack ==
    /\ (ret.op = "vaCreateSurfaces" /\ ret.status # "INVALID_PARAMETER")
          => /\ ret.status = "ALLOCATION_FAILED" <=> ret.freeBefore < ret.num_surfaces
             /\ ret.status = "ALLOCATION_FAILED"
                   => Cardinality(freeSurfaceSlots(surface_pool)) = ret.freeBefore
    /\ (ret.op = "vaCreateContext" /\ ret.status # "INVALID_PARAMETER")
          => /\ ret.status = "ALLOCATION_FAILED" <=> ret.freeBefore = 0
             /\ ret.status = "ALLOCATION_FAILED"
                   => freeContextSlots(context_pool) = {}


\* C24: BeginPicture and EndPicture called with a Context id that is not in
\* the registry return INVALID_CONTEXT, and BeginPicture and DestroySurfaces
\* called with a Surface id that is not in the registry return
\* INVALID_SURFACE; none of these calls faults.
C24_StaleIdsRejected ==
    /\ (ret.op = "BeginPicture" /\ ret.surface = NULL)
          => ret.status = "INVALID_SURFACE"
    /\ (ret.op \in {"BeginPicture", "EndPicture"} /\ ret.ctx = NULL
           /\ ret.status # "INVALID_SURFACE")
          => ret.status = "INVALID_CONTEXT"
    /\ (ret.op = "DestroySurfaces" /\ ~ret.found)
          => ret.status = "INVALID_SURFACE"
    /\ ~crashed


\* the threads blocked in SyncSurface on Surface s
syncWaiting(s) ==
    {t \in SyncThreads : syncThread[t].pc = "waiting" /\ syncThread[t].surface = s}

\* a step of the resolve thread of Context c that finishes the Surface it
\* dequeued
resolveFinishes(c) ==
    LET s == resolveThread[c].surface
    IN (resolveThread[c].pc \in {"resolve", "export"}
           /\ resolveThread'[c].pc \notin {"resolve", "export"})
          => /\ surfaces'[s].resolving = 0
             /\ resolveThread'[c].pc = "loop"
             /\ syncWaiting(s) # {}
                   => \E t \in syncWaiting(s) : syncThread'[t].pc = "woken"

resolveFinishesStep == \A c \in DOMAIN resolveThread : resolveFinishes(c)

pendingCount(c) == Len(endLog[c]) - Len(resolveThread[c].taken)

\* the k-th pending entry is in its slot of the ring, counted from the read
\* index
pendingInRing(c) ==
    \A k \in 1 .. pendingCount(c) :
        contexts[c].surfaceQueue[(contexts[c].surfaceQueueReadIdx + k - 1)
                                    % SURFACE_QUEUE_SIZE]
            = endLog[c][Len(resolveThread[c].taken) + k]

\* C26: the resolve queue neither loses nor duplicates an entry: the
\* Surfaces dequeued are the first ones enqueued, in order and once each; at
\* most SURFACE_QUEUE_SIZE Surfaces are pending; every pending Surface is
\* still in its slot of the ring; and while a Surface is pending the ring
\* does not look empty to the resolve thread.
C26_QueueLosesNothing ==
    \A c \in DOMAIN resolveThread :
        /\ Len(resolveThread[c].taken) <= Len(endLog[c])
        /\ resolveThread[c].taken = SubSeq(endLog[c], 1, Len(resolveThread[c].taken))
        /\ pendingCount(c) <= SURFACE_QUEUE_SIZE
        /\ pendingInRing(c)
        /\ pendingCount(c) > 0 => ~queueEmpty(contexts[c])


exitingContext(c) == c \in DOMAIN contexts /\ contexts[c].exiting

resolveExited(c) == c \in DOMAIN resolveThread /\ resolveThread[c].pc = "exited"

\* C27: once destroyContext has set exiting and signalled the resolve
\* condition, the Context's resolve thread eventually exits, whatever it was
\* doing at that moment.
C27_ExitingThreadExits ==
    \A c \in 1 .. 4 :
        [](exitingContext(c) => <>resolveExited(c))


\* a step that leaves every existing Config as CreateConfig made it
configsKept ==
    \A c \in DOMAIN configs : c \in DOMAIN configs' => configs'[c] = configs[c]

\* C28: a Config is immutable after creation: no call, CreateContext with
\* or without render targets included, changes the profile, entrypoint,
\* codec, chroma format, surface format or bit depth of an existing Config.
C28_ConfigImmutable == [][configsKept]_vars


\* C29: a successful CreateContext has selected the first codec, in table
\* order, whose supportedProfiles holds the Config's profile; CreateContext
\* on a Config whose profile no registered codec lists returns
\* UNSUPPORTED_PROFILE and creates no Context.
C29_FirstMatchingCodec ==
    (ret.op = "CreateContext" /\ ret.cfg # NULL) =>
        /\ ret.status = "SUCCESS"
              => /\ contexts[ret.id].codec # 0
                 /\ contexts[ret.id].codec = firstCodec(contexts[ret.id].profile)
        /\ ret.status = "UNSUPPORTED_PROFILE"
              <=> matchingCodecs(codecs, configs[ret.cfg].profile) = {}
        /\ ret.status = "UNSUPPORTED_PROFILE" => DOMAIN contexts = {}


\* C30: every entry point that pushes the device context pops it again
\* before it returns, on every exit path: the calling thread's context
\* stack is as deep after each call as before it, so no push is ever left
\* without its pop.
C30_PushPopBalanced == ctxStackDepth = 0


\* C31: when Terminate has run deleteAllObjects, destroyContext was invoked
\* on every Context that was in the registry and no Context is left in it,
\* wherever the Contexts stood in the list.
C31_TerminateDeletesAllContexts ==
    (ret.op = "Terminate" /\ ret.swept) =>
        /\ ret.destroyed = ret.contextsBefore
        /\ liveIds(OBJECT_TYPE_CONTEXT) = {}


\* C32: whatever the interleaving of the client threads that allocate
\* Objects, no two Objects of the registry have the same id, every id is one
\* that nextObjId has counted, and none is VA_INVALID_ID.
C32_IdsDistinct ==
    /\ \A i, j \in 1 .. Len(objects) : i # j => objects[i].id # objects[j].id
    /\ \A i \in 1 .. Len(objects) :
          /\ objects[i].id # VA_INVALID_ID
          /\ objects[i].id \in 1 .. nextObjId


\* the resolve thread of Context c calls cuvidMapVideoFrame in this step
mapsFrame(c) ==
    /\ c \in DOMAIN resolveThread'
    /\ resolveThread[c].pc = "resolve"
    /\ resolveThread'[c].pc # "resolve"
    /\ ~surfaces[resolveThread[c].surface].decodeFailed

\* the CurrPicIdx EndPicture gave cuvidDecodePicture for the picture the
\* resolve thread of Context c holds
decodedIdx(c) == decodeLog[c][Len(resolveThread[c].taken)]

mapsDecodedIdx ==
    \A c \in DOMAIN resolveThread : mapsFrame(c) => mapVideoFrameIdx(c) = decodedIdx(c)

\* C33: the picture index the resolve thread passes to MapVideoFrame for a
\* Surface equals the CurrPicIdx that the EndPicture which enqueued the
\* Surface submitted to DecodePicture, whatever other Contexts do with the
\* same Surface in between.
C33_MapUsesDecodedIdx == [][mapsDecodedIdx]_vars


\* the bitstreamBuffer of Context c before and after a step obeys the
\* capacity laws; raised(old, new) is the law of a reallocation
capacityKept(c, raised(_, _)) ==
    LET a == contexts[c].bitstreamBuffer
        b == contexts'[c].bitstreamBuffer
    IN /\ b.allocated >= b.size
       /\ b.allocated >= a.allocated
       /\ (a.isNull /\ b.size > 0) => b.allocated = 2 * b.size
       /\ (~a.isNull /\ b.allocated # a.allocated) => raised(a.allocated, b.allocated)

raisedByHalf(old, new) == 2 * new >= 3 * old

raisedByHalfRoundedDown(old, new) == new >= old + old \div 2

capacityStep(raised(_, _)) ==
    \A c \in DOMAIN contexts \cap DOMAIN contexts' : capacityKept(c, raised)

\* C34 as stated: after every append and reset, allocated >= size,
\* allocated has not decreased, the first allocation is twice the first
\* appended length, and a reallocation raises allocated by at least 50% of
\* its previous value.
C34_CapacityByHalf == [][capacityStep(raisedByHalf)]_vars

\* C34: after every append and reset, allocated >= size, allocated has not
\* decreased, the first allocation is twice the first appended length, and a
\* reallocation raises allocated by at least half of its previous value
\* rounded down (allocated >> 1).
C34_CapacityLaws == [][capacityStep(raisedByHalfRoundedDown)]_vars

\* an append has reallocated a buffer of 3 bytes, whose half is not whole
C34_Witness ==
    /\ ret.op = "appendBuffer"
    /\ ret.grown
    /\ ret.before = 3
    /\ contexts[ret.ctx].bitstreamBuffer.allocated = 4


\* C35: appendBuffer returns for every append length and every buffer state:
\* no caller stays inside the growth loop, also when the buffer was first
\* allocated by an append of length 0 and a later append has positive length.
C35_AppendTerminates ==
    \A c \in DOMAIN contexts :
        (~contexts[c].bitstreamBuffer.isNull \/ contexts[c].bitstreamBuffer.size = 0)
            => c \notin hung


\* the resolve thread of Context c dequeues a Surface, or reads or writes
\* the Surface it holds, in this step
resolveTouches(c, s) ==
    /\ c \in DOMAIN resolveThread'
    /\ \/ /\ resolveThread[c].pc = "dequeue"
          /\ resolveThread'[c].pc = "resolve"
          /\ s = resolveThread'[c].surface
       \/ /\ resolveThread[c].pc \in {"resolve", "export"}
          /\ resolveThread'[c].pc # resolveThread[c].pc
          /\ s = resolveThread[c].surface

\* EndPicture binds the Surface to Context c and enqueues it in this step
endEnqueues(c, s) ==
    /\ c \in DOMAIN endLog'
    /\ Len(endLog'[c]) = Len(endLog[c]) + 1
    /\ s = endLog'[c][Len(endLog'[c])]

usesOnlyLiveSurfaces ==
    \A c \in DOMAIN resolveThread, s \in DOMAIN surfaces :
        (resolveTouches(c, s) \/ endEnqueues(c, s)) => s \notin freed

\* C36: no destroyed Surface is used: the resolve thread never dequeues or
\* touches a Surface that DestroySurfaces has deleted, and EndPicture never
\* binds or enqueues a render target destroyed after its BeginPicture.
C36_NoDestroyedSurfaceUsed == [][usesOnlyLiveSurfaces]_vars


\* C37: a Context's decoder is destroyed and its Context object deleted
\* only after its resolve thread has exited, on every return path of
\* DestroyContext (the call that destroys the decoder also deletes the
\* Object, so a Context whose Object is not freed still has its decoder).
C37_ReleasedAfterThreadExit ==
    \A c \in DOMAIN resolveThread :
        c \in freed => resolveThread[c].pc = "exited"


\* the step that clears a Surface's resolving flag wakes every thread that
\* waits in SyncSurface on that Surface
wakesEveryWaiter ==
    \A s \in DOMAIN surfaces :
        (surfaces[s].resolving = 1 /\ surfaces'[s].resolving = 0)
            => \A t \in syncWaiting(s) : syncThread'[t].pc = "woken"

\* C38: when several client threads are blocked in SyncSurface on the same
\* Surface, one clearing of its resolving flag by the resolve thread releases
\* every one of them; none stays blocked because the signal woke another.
C38_AllWaitersWake == [][wakesEveryWaiter]_vars


\* the client threads that hold a Driver Instance: their __vaDriverInit_1_0
\* returned SUCCESS, or has passed the cap check and not yet returned, and
\* they have not called Terminate
holdsInstance(t) ==
    \/ initThread[t].pc = "admitted"
    \/ initThread[t].pc = "returned" /\ initThread[t].status = "SUCCESS"

\* C39: the instance counter equals the number of Driver Instances that
\* initialised successfully and have not terminated; an __vaDriverInit_1_0
\* that fails after the cap check does not leave the counter incremented.
C39_CounterCountsLiveInstances ==
    instances = Cardinality({t \in InitThreads : holdsInstance(t)})


\* EndPicture has been called for Surface s while its resolving flag is set
endedWhileResolving(s) ==
    /\ s \in DOMAIN surfaces
    /\ ret.op = "EndPicture"
    /\ ret.surface = s
    /\ surfaces[s].resolving = 1

resolvingCleared(s) == s \in DOMAIN surfaces /\ surfaces[s].resolving = 0

\* C40: every Surface whose resolving flag BeginPicture set has it cleared
\* eventually once EndPicture has been called for it, whatever EndPicture
\* returns and also when the Context is destroyed while the Surface is in
\* the resolve queue.
C40_ResolvingEventuallyCleared ==
    \A s \in 2 .. (MaxSurfaces + 1) : endedWhileResolving(s) ~> resolvingCleared(s)

====
